---------------------------- MODULE Spec2Model ----------------------------
(***************************************************************************)
(* Model of CI2SSoundBaseDevice (lib/i2ssoundbasedevice.cpp): the I2S/PCM  *)
(* sound device of the Circle bare metal environment.                      *)
(*                                                                         *)
(* A 32-bit register value is the set of the positions of its one bits;    *)
(* "|" is \cup and "& ~" is \ .  The control thread runs the constructor,  *)
(* Start, Cancel, IsActive and the destructor; the DMA completion          *)
(* handlers run in interrupt context and may come between any two steps of *)
(* Start once a DMA direction is active.                                   *)
(***************************************************************************)
EXTENDS Integers, Sequences, FiniteSets, TLC

\* ------------------------------------------------------------------ bounds

\* Start may be called this many times in one object lifetime.
MaxStarts == 2
\* The two-wire bus may fail at one of the first MaxFailPos transactions of a
\* table, or not at all.
MaxFailPos == 1

\* ------------------------------------------------- 32-bit words as bit sets

Word == 0..31

\* the one bits of a number below 2^31
BitsOf(v) == {i \in 0..30 : (v \div (2^i)) % 2 = 1}

\* (v << s), truncated to 32 bits
Shl(v, s) == {i + s : i \in BitsOf(v)} \cap Word

\* (1 << n)
Bit(n) == {n}

\* ------------------------------------------------------ program constants

CHANS == 2
CHANLEN == 32

CS_A_STBY == Bit(25)
CS_A_SYNC == Bit(24)
CS_A_RXSEX == Bit(23)
CS_A_TXE == Bit(21)
CS_A_DMAEN == Bit(9)
CS_A_RXCLR == Bit(4)
CS_A_TXCLR == Bit(3)
CS_A_TXON == Bit(2)
CS_A_RXON == Bit(1)
CS_A_EN == Bit(0)

MODE_A_CLKI == Bit(22)
MODE_A_CLKM == Bit(23)
MODE_A_FSI == Bit(20)
MODE_A_FSM == Bit(21)
MODE_A_FLEN__SHIFT == 10
MODE_A_FSLEN__SHIFT == 0

RXC_A_CH1WEX == Bit(31)
RXC_A_CH1EN == Bit(30)
RXC_A_CH1POS__SHIFT == 20
RXC_A_CH1WID__SHIFT == 16
RXC_A_CH2WEX == Bit(15)
RXC_A_CH2EN == Bit(14)
RXC_A_CH2POS__SHIFT == 4
RXC_A_CH2WID__SHIFT == 0

TXC_A_CH1WEX == Bit(31)
TXC_A_CH1EN == Bit(30)
TXC_A_CH1POS__SHIFT == 20
TXC_A_CH1WID__SHIFT == 16
TXC_A_CH2WEX == Bit(15)
TXC_A_CH2EN == Bit(14)
TXC_A_CH2POS__SHIFT == 4
TXC_A_CH2WID__SHIFT == 0

DREQ_A_TX__SHIFT == 8
DREQ_A_TX__MASK == Shl(127, 8)
DREQ_A_RX__SHIFT == 0
DREQ_A_RX__MASK == Shl(127, 0)

\* the threshold value 0x18 written to a DREQ_A field
DREQ_THRESHOLD == 24

\* the chunk size below which Start programs the DREQ_A thresholds
DREQ_CHUNK_LIMIT == 64

\* sizeof (command): the length of one two-wire transaction
CMD_SIZE == 2

\* the two-wire addresses the code names
ADDR_WM8960 == 26
ADDR_PCM51XX_1 == 76
ADDR_PCM51XX_2 == 77

Registers == {"CS_A", "MODE_A", "RXC_A", "TXC_A", "DREQ_A"}

DeviceModes == {"TXOnly", "RXOnly", "Duplex"}

PinNames == {"PCMCLK", "PCMFS", "PCMDIN", "PCMDOUT"}

\* --------------------------------------------------- the model's input sets

\* chunk sizes the constructor's assertions accept
ChunkSizes == {32, 64}
\* 0: auto probing; 0x1A: WM8960; 0x4C, 0x4D: PCM51xx
I2CAddresses == {0, ADDR_WM8960, ADDR_PCM51XX_1, ADDR_PCM51XX_2}
SampleRates == {48000}
\* sample rates of the asserted range 8000..192000: its ends, the usual rates
\* and rates next to them
SampleRatesWide ==
    {8000, 8001, 11025, 16000, 22050, 32000, 44100, 48000, 88200, 96000,
     176400, 191999, 192000}
\* clock rates the assertions admit (positive multiples of CHANLEN*CHANS):
\* the least one, rates that make nClockFreq/64 meet a sample rate or its
\* half, the 19.2 MHz oscillator, and PLLD at 500 MHz and at 750 MHz
ClockFreqsWide ==
    {64, 256000, 256064, 511936, 512000, 12287936, 12288000, 19200000,
     500000000, 750000000}
\* rate of PLLD
ClockFreqs == {500000000}
\* TRUE: a model A or B release 2, with I2S on the P5 header
EarlyModels == BOOLEAN
\* a return value of CI2CMaster::Write other than sizeof (command)
BadWriteResults == {-1}
\* what DREQ_A holds before the driver touches it (0x10303020, its reset value)
DREQResetValues == {BitsOf(271593504)}

\* ---------------------------------------------------------------- variables

VARIABLES
    m_nChunkSize, m_bSlave, m_pI2CMaster, m_ucI2CAddress, m_DeviceMode,
    nSampleRate, nClockFreq, bEarlyModel,
    m_bI2CInited, m_bError,
    regs,       \* the PCM registers: name -> bit set
    pins,       \* the four GPIO pin objects: name -> [pin, mode]
    clock,      \* m_Clock: [running, divI, divF, mash]
    tx, rx,     \* m_TXBuffers, m_RXBuffers: [active, cancel, handler]
    i2c,        \* every transaction sent over the two-wire bus so far
    hw,         \* every call to the peripherals made so far, in order
    pc,         \* where the control thread is
    nTXRXOn,    \* the local of Start
    ret,        \* the control thread's last call and what it returned
    cb,         \* the last completion handler run and what it did
    nStarts,    \* calls of Start so far
    \* CHD44780Device
    m_nColumns, m_nRows, m_nState, m_nCursorX, m_nCursorY, m_bCursorOn,
    m_nParam1, m_nParam2, m_bAutoPage,
    lcdpc,      \* where the display's user is
    lcdFault    \* assertions hit and cells written outside m_Buffer so far

\* the display: no operation of the sound device touches it
display == <<m_nColumns, m_nRows, m_nState, m_nCursorX, m_nCursorY,
             m_bCursorOn, m_nParam1, m_nParam2, m_bAutoPage, lcdpc, lcdFault>>

\* what no operation of the sound device changes: the arguments of its
\* constructor, the board, and the display
config == <<m_nChunkSize, m_bSlave, m_pI2CMaster, m_ucI2CAddress, m_DeviceMode,
            nSampleRate, nClockFreq, bEarlyModel, display>>

\* the sound device
sound == <<m_nChunkSize, m_bSlave, m_pI2CMaster, m_ucI2CAddress, m_DeviceMode,
           nSampleRate, nClockFreq, bEarlyModel, m_bI2CInited, m_bError,
           regs, pins, clock, tx, rx, i2c, hw, pc, nTXRXOn, ret, cb, nStarts>>

vars == <<sound, display>>

\* ------------------------------------------------------- clock divider

\* a faulty variant of ClockDivI: the frame taken as one channel long
ClockDivI_OneChannel(F, S) == (F \div CHANLEN) \div S

\* nClockFreq / (CHANLEN*CHANS) / nSampleRate
ClockDivI(F, S) == (F \div (CHANLEN * CHANS)) \div S

\* a faulty variant of ClockTemp: the remainder of the clock rate itself
ClockTemp_OfClock(F, S) == F % S

\* nClockFreq / (CHANLEN*CHANS) % nSampleRate
ClockTemp(F, S) == (F \div (CHANLEN * CHANS)) % S

\* a faulty variant of ClockDivFRaw: the fraction truncated, not rounded
ClockDivFRaw_Truncate(F, S) == (ClockTemp(F, S) * 4096) \div S

\* (nTemp * 4096 + nSampleRate/2) / nSampleRate
ClockDivFRaw(F, S) == (ClockTemp(F, S) * 4096 + S \div 2) \div S

\* a faulty variant of ClockDivider: no carry into the integer divisor
ClockDivider_NoCarry(F, S) ==
    [divI |-> ClockDivI(F, S), divF |-> ClockDivFRaw(F, S),
     mash |-> IF ClockDivFRaw(F, S) > 0 THEN 1 ELSE 0]

\* the three arguments of m_Clock.Start, after the carry
ClockDivider(F, S) ==
    LET nDivF == ClockDivFRaw(F, S)
        carry == nDivF > 4095
        divI  == IF carry THEN ClockDivI(F, S) + 1 ELSE ClockDivI(F, S)
        divF  == IF carry THEN 0 ELSE nDivF
    IN  [divI |-> divI, divF |-> divF, mash |-> IF divF > 0 THEN 1 ELSE 0]

\* ------------------------------------------------------- codec tables

\* initBytes of InitPCM51xx: <<register, value>>
PCM51xxInitBytes == << <<13, 16>>, <<37, 8>>, <<65, 4>> >>

\* SHIFT_BIT (r, v): {((v&0x0100)>>8) | (r<<1), (v&0xff)}, each a u8
SHIFT_BIT(r, v) == << (((v \div 256) % 2) + 2 * r) % 256, v % 256 >>

\* the <<register, value>> arguments of the SHIFT_BIT lines of InitWM8960
WM8960Regs ==
    << <<15, 0>>,
       <<25, 508>>, <<26, 505>>, <<47, 60>>,
       <<4, 1>>, <<52, 39>>, <<53, 134>>, <<54, 194>>, <<55, 38>>,
       <<5, 0>>, <<7, 2>>,
       <<20, 249>>, <<17, 507>>, <<18, 0>>, <<19, 50>>,
       <<2, 367>>, <<3, 367>>,
       <<40, 383>>, <<41, 376>>, <<51, 141>>,
       <<0, 319>>, <<1, 319>>,
       <<32, 312>>, <<33, 312>>,
       <<49, 247>>, <<10, 511>>, <<11, 511>>, <<34, 256>>, <<37, 256>> >>

\* initBytes of InitWM8960
WM8960InitBytes == [i \in 1..Len(WM8960Regs) |->
                        SHIFT_BIT(WM8960Regs[i][1], WM8960Regs[i][2])]

\* what the bus answers to the transactions of one table of n commands: the
\* return value of each CI2CMaster::Write, were it called
FailAt(n) == {k \in 1..n : k <= MaxFailPos} \cup {n + 1}

BusResponses(n) ==
    {[i \in 1..n |-> IF i = k THEN bad ELSE CMD_SIZE] :
        k \in FailAt(n), bad \in BadWriteResults}

\* what CI2CMaster::Write may return instead of the 2 bytes asked for: an
\* error code or a shorter count
ShortWriteResults == {-1, 0, 1}

\* the answers of a bus that fails at any one transaction, or at none
AllBusResponses(n) ==
    {[i \in 1..n |-> IF i = k THEN bad ELSE CMD_SIZE] :
        k \in 1..(n + 1), bad \in ShortWriteResults}

\* a faulty variant of WriteLoop: the loop goes on after a failed Write
RECURSIVE WriteLoop_NoAbort(_, _, _, _)
WriteLoop_NoAbort(ucI2CAddress, initBytes, resp, i) ==
    IF i > Len(initBytes)
    THEN [ok |-> TRUE, sent |-> <<>>]
    ELSE LET t == [addr |-> ucI2CAddress, data |-> initBytes[i],
                   len |-> CMD_SIZE, ret |-> resp[i]]
             r == WriteLoop_NoAbort(ucI2CAddress, initBytes, resp, i + 1)
         IN  [ok |-> r.ok /\ resp[i] = CMD_SIZE, sent |-> <<t>> \o r.sent]

\* the loop over initBytes: one Write per command, FALSE at the first Write
\* that does not return sizeof (command)
RECURSIVE WriteLoop(_, _, _, _)
WriteLoop(ucI2CAddress, initBytes, resp, i) ==
    IF i > Len(initBytes)
    THEN [ok |-> TRUE, sent |-> <<>>]
    ELSE LET t == [addr |-> ucI2CAddress, data |-> initBytes[i],
                   len |-> CMD_SIZE, ret |-> resp[i]]
         IN  IF resp[i] # CMD_SIZE
             THEN [ok |-> FALSE, sent |-> <<t>>]
             ELSE LET r == WriteLoop(ucI2CAddress, initBytes, resp, i + 1)
                  IN  [ok |-> r.ok, sent |-> <<t>> \o r.sent]

InitPCM51xx(ucI2CAddress, resp) ==
    [variant |-> "InitPCM51xx", addr |-> ucI2CAddress]
      @@ WriteLoop(ucI2CAddress, PCM51xxInitBytes, resp, 1)

InitWM8960(ucI2CAddress, resp) ==
    [variant |-> "InitWM8960", addr |-> ucI2CAddress]
      @@ WriteLoop(ucI2CAddress, WM8960InitBytes, resp, 1)

\* ------------------------------------------------------- the hardware log

Ev(name) == [ev |-> name]
EvWrite(reg, val) == [ev |-> "write32", reg |-> reg, val |-> val]
EvRead(reg) == [ev |-> "read32", reg |-> reg]
EvDelay(us) == [ev |-> "usDelay", us |-> us]
EvAssignPin(pin, n) == [ev |-> "AssignPin", pin |-> pin, n |-> n]
EvSetMode(pin, mode) == [ev |-> "SetMode", pin |-> pin, mode |-> mode]
EvClockStart(d) == [ev |-> "ClockStart", divI |-> d.divI, divF |-> d.divF,
                    mash |-> d.mash]
EvDMAStart(dir, ok) == [ev |-> "DMAStart", dir |-> dir, ok |-> ok]
EvCodec(call) == [ev |-> call.variant, addr |-> call.addr, ok |-> call.ok]

\* ------------------------------------------------------- initial state

\* no display is attached
NoDisplay ==
    /\ m_nColumns = 0 /\ m_nRows = 0
    /\ m_nState = "ScreenStateStart"
    /\ m_nCursorX = 0 /\ m_nCursorY = 0
    /\ m_bCursorOn = FALSE /\ m_bAutoPage = FALSE
    /\ m_nParam1 = 0 /\ m_nParam2 = 0
    /\ lcdpc = "none"
    /\ lcdFault = {}

\* the sound device as its constructor's initialisers leave it
InitSoundState ==
    /\ m_bI2CInited = FALSE
    /\ m_bError = FALSE
    /\ \E d \in DREQResetValues :
          regs = [r \in Registers |-> IF r = "DREQ_A" THEN d ELSE {}]
    /\ pins = [p \in PinNames |-> [pin |-> -1, mode |-> "Unknown"]]
    /\ clock = [running |-> FALSE, divI |-> 0, divF |-> 0, mash |-> 0]
    /\ tx = [active |-> FALSE, cancel |-> FALSE, handler |-> "none"]
    /\ rx = [active |-> FALSE, cancel |-> FALSE, handler |-> "none"]
    /\ i2c = <<>>
    /\ hw = <<>>
    /\ pc = "new"
    /\ nTXRXOn = {}
    /\ ret = [op |-> "none", val |-> FALSE]
    /\ cb = [handler |-> "none", bStatus |-> TRUE, chunk |-> FALSE, ret |-> 0]
    /\ nStarts = 0

InitState == InitSoundState /\ NoDisplay

Init ==
    /\ m_nChunkSize \in ChunkSizes
    /\ m_bSlave \in BOOLEAN
    /\ m_pI2CMaster \in BOOLEAN
    /\ m_ucI2CAddress \in I2CAddresses
    /\ m_DeviceMode \in DeviceModes
    /\ nSampleRate \in SampleRates
    /\ nClockFreq \in ClockFreqs
    /\ bEarlyModel \in EarlyModels
    /\ InitState

\* ------------------------------------------------------- RunI2S, StopI2S

\* the value RunI2S writes to TXC_A
TXC_A_Value ==
    TXC_A_CH1WEX \cup TXC_A_CH1EN \cup Shl(1, TXC_A_CH1POS__SHIFT)
      \cup Shl(0, TXC_A_CH1WID__SHIFT)
      \cup TXC_A_CH2WEX \cup TXC_A_CH2EN \cup Shl(CHANLEN + 1, TXC_A_CH2POS__SHIFT)
      \cup Shl(0, TXC_A_CH2WID__SHIFT)

\* the value RunI2S writes to RXC_A
RXC_A_Value ==
    RXC_A_CH1WEX \cup RXC_A_CH1EN \cup Shl(1, RXC_A_CH1POS__SHIFT)
      \cup Shl(0, RXC_A_CH1WID__SHIFT)
      \cup RXC_A_CH2WEX \cup RXC_A_CH2EN \cup Shl(CHANLEN + 1, RXC_A_CH2POS__SHIFT)
      \cup Shl(0, RXC_A_CH2WID__SHIFT)

\* nModeA
MODE_A_Value(bSlave) ==
    MODE_A_CLKI \cup MODE_A_FSI \cup Shl(CHANS * CHANLEN - 1, MODE_A_FLEN__SHIFT)
      \cup Shl(CHANLEN, MODE_A_FSLEN__SHIFT)
      \cup (IF bSlave THEN MODE_A_CLKM \cup MODE_A_FSM ELSE {})

\* nPinBase and GPIOMode
PinBase(early) == IF early THEN 28 ELSE 18
PinMode(early) == IF early THEN "AlternateFunction2" ELSE "AlternateFunction0"

\* a faulty variant of RunUsesDIN: the data-in pin is claimed in every mode
RunUsesDIN_Always(mode) == TRUE

\* the data-in pin is used unless the device only transmits
RunUsesDIN(mode) == mode # "TXOnly"
\* the data-out pin is used unless the device only receives
RunUsesDOUT(mode) == mode # "RXOnly"

\* the pins RunI2S assigns, in its order: <<pin object, offset from nPinBase>>
RunPins(mode) ==
    << <<"PCMCLK", 0>>, <<"PCMFS", 1>> >>
      \o (IF RunUsesDIN(mode) THEN << <<"PCMDIN", 2>> >> ELSE <<>>)
      \o (IF RunUsesDOUT(mode) THEN << <<"PCMDOUT", 3>> >> ELSE <<>>)

RECURSIVE PinEvents(_, _, _)
PinEvents(ps, base, gpiomode) ==
    IF ps = <<>> THEN <<>>
    ELSE << EvAssignPin(Head(ps)[1], base + Head(ps)[2]),
            EvSetMode(Head(ps)[1], gpiomode) >>
         \o PinEvents(Tail(ps), base, gpiomode)

\* a faulty variant of RunI2S: the pins are claimed after the device is enabled
RunI2S_PinsLast(r, p, bSlave, mode, early) ==
    LET cs1 == {}
        cs2 == cs1 \cup CS_A_TXCLR \cup CS_A_RXCLR
        cs3 == cs2 \cup CS_A_STBY
        cs4 == cs3 \cup CS_A_EN
        ps  == RunPins(mode)
        claimed == {ps[i][1] : i \in 1..Len(ps)}
        offset(n) == (CHOOSE i \in 1..Len(ps) : ps[i][1] = n)
    IN  [regs |-> [r EXCEPT !["CS_A"] = cs4,
                            !["TXC_A"] = TXC_A_Value,
                            !["RXC_A"] = RXC_A_Value,
                            !["MODE_A"] = MODE_A_Value(bSlave)],
         pins |-> [n \in PinNames |->
                     IF n \in claimed
                     THEN [pin |-> PinBase(early) + ps[offset(n)][2],
                           mode |-> PinMode(early)]
                     ELSE p[n]],
         log  |-> << Ev("PeripheralEntry"),
                     EvWrite("CS_A", cs1), EvDelay(10),
                     EvRead("CS_A"), EvWrite("CS_A", cs2), EvDelay(10),
                     EvWrite("TXC_A", TXC_A_Value),
                     EvWrite("RXC_A", RXC_A_Value),
                     EvWrite("MODE_A", MODE_A_Value(bSlave)),
                     EvRead("CS_A"), EvWrite("CS_A", cs3), EvDelay(50),
                     EvRead("CS_A"), EvWrite("CS_A", cs4), EvDelay(10) >>
                  \o PinEvents(ps, PinBase(early), PinMode(early))
                  \o << Ev("PeripheralExit") >>]

\* RunI2S: the registers and pins it leaves and the calls it makes
RunI2S(r, p, bSlave, mode, early) ==
    LET cs1 == {}
        cs2 == cs1 \cup CS_A_TXCLR \cup CS_A_RXCLR
        cs3 == cs2 \cup CS_A_STBY
        cs4 == cs3 \cup CS_A_EN
        ps  == RunPins(mode)
        claimed == {ps[i][1] : i \in 1..Len(ps)}
        offset(n) == (CHOOSE i \in 1..Len(ps) : ps[i][1] = n)
    IN  [regs |-> [r EXCEPT !["CS_A"] = cs4,
                            !["TXC_A"] = TXC_A_Value,
                            !["RXC_A"] = RXC_A_Value,
                            !["MODE_A"] = MODE_A_Value(bSlave)],
         pins |-> [n \in PinNames |->
                     IF n \in claimed
                     THEN [pin |-> PinBase(early) + ps[offset(n)][2],
                           mode |-> PinMode(early)]
                     ELSE p[n]],
         log  |-> << Ev("PeripheralEntry"),
                     EvWrite("CS_A", cs1), EvDelay(10),
                     EvRead("CS_A"), EvWrite("CS_A", cs2), EvDelay(10),
                     EvWrite("TXC_A", TXC_A_Value),
                     EvWrite("RXC_A", RXC_A_Value),
                     EvWrite("MODE_A", MODE_A_Value(bSlave)) >>
                  \o PinEvents(ps, PinBase(early), PinMode(early))
                  \o << EvRead("CS_A"), EvWrite("CS_A", cs3), EvDelay(50),
                        EvRead("CS_A"), EvWrite("CS_A", cs4), EvDelay(10),
                        Ev("PeripheralExit") >>]

\* a faulty variant of StopsClock: StopI2S stops the clock in either role
StopsClock_Always(bSlave) == TRUE

\* StopI2S stops the clock generator unless the clock is supplied from outside
StopsClock(bSlave) == ~bSlave

\* a faulty variant of StopPins: all four pins are set to input
StopPins_All(mode) == <<"PCMCLK", "PCMFS", "PCMDIN", "PCMDOUT">>

\* the pins StopI2S sets to input, in its order
StopPins(mode) ==
    <<"PCMCLK", "PCMFS">>
      \o (IF mode # "TXOnly" THEN <<"PCMDIN">> ELSE <<>>)
      \o (IF mode # "RXOnly" THEN <<"PCMDOUT">> ELSE <<>>)

\* StopI2S
StopI2S(r, p, c, bSlave, mode) ==
    LET ps == StopPins(mode)
        released == {ps[i] : i \in 1..Len(ps)}
    IN  [regs  |-> [r EXCEPT !["CS_A"] = {}],
         pins  |-> [n \in PinNames |->
                      IF n \in released THEN [p[n] EXCEPT !.mode = "Input"]
                      ELSE p[n]],
         clock |-> IF StopsClock(bSlave) THEN [c EXCEPT !.running = FALSE]
                   ELSE c,
         log   |-> << Ev("PeripheralEntry"), EvWrite("CS_A", {}), EvDelay(50),
                      Ev("PeripheralExit") >>
                   \o (IF StopsClock(bSlave) THEN << Ev("ClockStop") >>
                       ELSE <<>>)
                   \o [i \in 1..Len(ps) |-> EvSetMode(ps[i], "Input")]]

\* ------------------------------------------------------- constructor, destructor

\* CI2SSoundBaseDevice::CI2SSoundBaseDevice
Construct ==
    /\ pc = "new"
    /\ LET d   == ClockDivider(nClockFreq, nSampleRate)
           run == RunI2S(regs, pins, m_bSlave, m_DeviceMode, bEarlyModel)
       IN  /\ clock' = IF ~m_bSlave
                       THEN [running |-> TRUE, divI |-> d.divI, divF |-> d.divF,
                             mash |-> d.mash]
                       ELSE clock
           /\ regs' = run.regs
           /\ pins' = run.pins
           /\ hw' = hw \o (IF ~m_bSlave THEN << EvClockStart(d) >> ELSE <<>>)
                       \o run.log \o << Ev("AddDevice") >>
    /\ pc' = "idle"
    /\ UNCHANGED <<config, m_bI2CInited, m_bError, tx, rx, i2c, nTXRXOn, ret,
                   cb, nStarts>>

\* a faulty variant of Destroy: a device whose fault flag is set, or which
\* reports activity, is unregistered but not torn down
Destroy_UnlessFaultedOrActive ==
    /\ pc = "idle"
    /\ LET stop == StopI2S(regs, pins, clock, m_bSlave, m_DeviceMode)
           skip == m_bError \/ tx.active \/ rx.active
       IN  /\ regs' = IF skip THEN regs ELSE stop.regs
           /\ pins' = IF skip THEN pins ELSE stop.pins
           /\ clock' = IF skip THEN clock ELSE stop.clock
           /\ hw' = hw \o << Ev("RemoveDevice") >>
                       \o (IF skip THEN <<>> ELSE stop.log)
    /\ pc' = "destroyed"
    /\ UNCHANGED <<config, m_bI2CInited, m_bError, tx, rx, i2c, nTXRXOn, ret,
                   cb, nStarts>>

\* CI2SSoundBaseDevice::~CI2SSoundBaseDevice
Destroy ==
    /\ pc = "idle"
    /\ LET stop == StopI2S(regs, pins, clock, m_bSlave, m_DeviceMode)
       IN  /\ regs' = stop.regs
           /\ pins' = stop.pins
           /\ clock' = stop.clock
           /\ hw' = hw \o << Ev("RemoveDevice") >> \o stop.log
    /\ pc' = "destroyed"
    /\ UNCHANGED <<config, m_bI2CInited, m_bError, tx, rx, i2c, nTXRXOn, ret,
                   cb, nStarts>>

\* ------------------------------------------------------- the DMA buffers

\* CDMASoundBuffers::Start, when it succeeds: the direction runs, with the
\* completion handler registered
DMAStarted(handler) == [active |-> TRUE, cancel |-> FALSE, handler |-> handler]

\* CDMASoundBuffers::Cancel: a request to stop, which returns at once
DMACancel(d) == [d EXCEPT !.cancel = TRUE]

\* CDMASoundBuffers::IsActive
DMAIsActive(d) == d.active

\* what CSoundBaseDevice::GetChunk may return for a chunk of n words
GetChunkResults(n) == {0, n}

\* ------------------------------------------------------- Start

\* a faulty variant of StartRefused: the check of m_bError is missing
StartRefused_Never == FALSE

\* line 157: Start gives up at once when the device has failed before
StartRefused == m_bError

\* a faulty variant of NeedCodecInit: m_bI2CInited is not looked at
NeedCodecInit_NoFlag ==
    /\ m_DeviceMode # "RXOnly"
    /\ m_pI2CMaster

\* lines 163-165: the DAC is to be initialised via I2C
NeedCodecInit ==
    /\ m_DeviceMode # "RXOnly"
    /\ m_pI2CMaster
    /\ ~m_bI2CInited

\* a faulty variant of FixedIsPCM51xx: every fixed address is taken for a PCM51xx
FixedIsPCM51xx_Always(addr) == TRUE

\* line 170: a fixed address other than 0x1A is a PCM51xx, 0x1A a WM8960
FixedIsPCM51xx(addr) == addr # ADDR_WM8960

\* a faulty variant of CodecBringUp: an auto probing that finds no codec is fatal
CodecBringUp_ProbeFatal(addr, rA, rB, rC) ==
    IF addr # 0
    THEN LET a == IF addr # ADDR_WM8960 THEN InitPCM51xx(addr, rA)
                  ELSE InitWM8960(addr, rC)
         IN  [fatal |-> ~a.ok, calls |-> <<a>>]
    ELSE LET a == InitPCM51xx(ADDR_PCM51XX_1, rA)
             b == InitPCM51xx(ADDR_PCM51XX_2, rB)
             c == InitWM8960(ADDR_WM8960, rC)
         IN  IF a.ok THEN [fatal |-> FALSE, calls |-> <<a>>]
             ELSE IF b.ok THEN [fatal |-> FALSE, calls |-> <<a, b>>]
             ELSE [fatal |-> ~c.ok, calls |-> <<a, b, c>>]

\* a faulty variant of CodecBringUp: the failure at a fixed address is ignored
\* as the failure of the probing is
CodecBringUp_NeverFatal(addr, rA, rB, rC) ==
    IF addr # 0
    THEN IF addr # ADDR_WM8960
         THEN [fatal |-> FALSE, calls |-> << InitPCM51xx(addr, rA) >>]
         ELSE [fatal |-> FALSE, calls |-> << InitWM8960(addr, rC) >>]
    ELSE LET a == InitPCM51xx(ADDR_PCM51XX_1, rA)
             b == InitPCM51xx(ADDR_PCM51XX_2, rB)
             c == InitWM8960(ADDR_WM8960, rC)
         IN  IF a.ok THEN [fatal |-> FALSE, calls |-> <<a>>]
             ELSE IF b.ok THEN [fatal |-> FALSE, calls |-> <<a, b>>]
             ELSE [fatal |-> FALSE, calls |-> <<a, b, c>>]

\* lines 167-198: the Init calls made, in order, and whether their failure
\* is fatal; rA, rB, rC are the bus's answers to the first and second
\* InitPCM51xx and to InitWM8960
CodecBringUp(addr, rA, rB, rC) ==
    IF addr # 0
    THEN IF FixedIsPCM51xx(addr)
         THEN LET a == InitPCM51xx(addr, rA)
              IN  [fatal |-> ~a.ok, calls |-> <<a>>]
         ELSE LET c == InitWM8960(addr, rC)
              IN  [fatal |-> ~c.ok, calls |-> <<c>>]
    ELSE LET a == InitPCM51xx(ADDR_PCM51XX_1, rA)
         IN  IF ~a.ok
             THEN LET b == InitPCM51xx(ADDR_PCM51XX_2, rB)
                  IN  IF ~b.ok
                      THEN [fatal |-> FALSE,
                            calls |-> <<a, b, InitWM8960(ADDR_WM8960, rC)>>]
                      ELSE [fatal |-> FALSE, calls |-> <<a, b>>]
             ELSE [fatal |-> FALSE, calls |-> <<a>>]

\* line 200
I2CInitedAfterBringUp == TRUE

\* a faulty variant of NeedThreshold: the thresholds are programmed whatever
\* the chunk size
NeedThreshold_Always(nChunkSize) == TRUE

\* line 206: the thresholds are programmed for small chunks only
NeedThreshold(nChunkSize) == nChunkSize < DREQ_CHUNK_LIMIT

\* lines 209 and 228: the transmit direction is used
StartUsesTX == m_DeviceMode # "RXOnly"
\* lines 215 and 240: the receive direction is used
StartUsesRX == m_DeviceMode # "TXOnly"

\* a faulty variant of DMAEnableBits: TX and RX are switched on together with the DMA
\* requests, before the DMA buffers are started
DMAEnableBits_Early == CS_A_DMAEN \cup CS_A_TXON \cup CS_A_RXON

\* line 222: the bits set in CS_A before the DMA buffers are started
DMAEnableBits == CS_A_DMAEN

\* a faulty variant of ErrorAfterDMAFailure: the failure is returned but not recorded
ErrorAfterDMAFailure_Unset == m_bError

\* lines 232-234 and 244-246: m_bError after a DMA start has failed
ErrorAfterDMAFailure == TRUE

\* lines 155-160
StartEntry ==
    /\ pc = "idle"
    /\ nStarts < MaxStarts
    /\ nStarts' = nStarts + 1
    /\ IF StartRefused
       THEN /\ pc' = "idle"
            /\ ret' = [op |-> "Start", val |-> FALSE]
       ELSE /\ pc' = "codec"
            /\ UNCHANGED ret
    /\ UNCHANGED <<config, m_bI2CInited, m_bError, regs, pins, clock, tx, rx,
                   i2c, hw, nTXRXOn, cb>>

\* lines 162-201, the bus answering the transactions of a PCM51xx bring-up as
\* one of respPCM and those of a WM8960 bring-up as one of respWM
StartCodecOn(respPCM, respWM) ==
    /\ pc = "codec"
    /\ IF NeedCodecInit
       THEN \E rA \in respPCM, rB \in respPCM, rC \in respWM :
              LET c == CodecBringUp(m_ucI2CAddress, rA, rB, rC)
              IN  /\ i2c' = i2c \o [k \in 1..Len(c.calls) |->
                                      c.calls[k] @@ [start |-> nStarts]]
                  /\ hw' = hw \o [k \in 1..Len(c.calls) |-> EvCodec(c.calls[k])]
                  /\ IF c.fatal
                     THEN /\ m_bError' = TRUE
                          /\ pc' = "idle"
                          /\ ret' = [op |-> "Start", val |-> FALSE]
                          /\ UNCHANGED m_bI2CInited
                     ELSE /\ m_bI2CInited' = I2CInitedAfterBringUp
                          /\ pc' = "dmaen"
                          /\ UNCHANGED <<m_bError, ret>>
       ELSE /\ pc' = "dmaen"
            /\ UNCHANGED <<m_bI2CInited, m_bError, i2c, hw, ret>>
    /\ UNCHANGED <<config, regs, pins, clock, tx, rx, nTXRXOn, cb, nStarts>>

\* lines 162-201, on a bus that fails early or not at all
StartCodec ==
    StartCodecOn(BusResponses(Len(PCM51xxInitBytes)),
                 BusResponses(Len(WM8960InitBytes)))

\* lines 162-201, on a bus that may fail at any transaction
StartCodecAnyFailure ==
    StartCodecOn(AllBusResponses(Len(PCM51xxInitBytes)),
                 AllBusResponses(Len(WM8960InitBytes)))

\* lines 203-224
StartDMAEnable ==
    /\ pc = "dmaen"
    /\ LET thr   == NeedThreshold(m_nChunkSize)
           dreq1 == IF thr /\ StartUsesTX
                    THEN (regs["DREQ_A"] \ DREQ_A_TX__MASK)
                           \cup Shl(DREQ_THRESHOLD, DREQ_A_TX__SHIFT)
                    ELSE regs["DREQ_A"]
           dreq2 == IF thr /\ StartUsesRX
                    THEN (dreq1 \ DREQ_A_RX__MASK)
                           \cup Shl(DREQ_THRESHOLD, DREQ_A_RX__SHIFT)
                    ELSE dreq1
           cs    == regs["CS_A"] \cup DMAEnableBits
       IN  /\ regs' = [regs EXCEPT !["DREQ_A"] = dreq2, !["CS_A"] = cs]
           /\ hw' = hw \o << Ev("PeripheralEntry") >>
                       \o (IF thr /\ StartUsesTX
                           THEN << EvRead("DREQ_A"), EvWrite("DREQ_A", dreq1) >>
                           ELSE <<>>)
                       \o (IF thr /\ StartUsesRX
                           THEN << EvRead("DREQ_A"), EvWrite("DREQ_A", dreq2) >>
                           ELSE <<>>)
                       \o << EvRead("CS_A"), EvWrite("CS_A", cs),
                             Ev("PeripheralExit") >>
    /\ pc' = "txstart"
    /\ UNCHANGED <<config, m_bI2CInited, m_bError, pins, clock, tx, rx, i2c,
                   nTXRXOn, ret, cb, nStarts>>

\* lines 226-238
StartTX ==
    /\ pc = "txstart"
    /\ IF StartUsesTX
       THEN \E ok \in BOOLEAN :
              /\ hw' = hw \o << EvDMAStart("TX", ok) >>
              /\ IF ok
                 THEN /\ tx' = DMAStarted("TXCompletedHandler")
                      /\ nTXRXOn' = CS_A_TXON
                      /\ pc' = "rxstart"
                      /\ UNCHANGED <<m_bError, ret>>
                 ELSE /\ m_bError' = ErrorAfterDMAFailure
                      /\ pc' = "idle"
                      /\ ret' = [op |-> "Start", val |-> FALSE]
                      /\ nTXRXOn' = {}
                      /\ UNCHANGED tx
       ELSE /\ nTXRXOn' = {}
            /\ pc' = "rxstart"
            /\ UNCHANGED <<m_bError, ret, tx, hw>>
    /\ UNCHANGED <<config, m_bI2CInited, regs, pins, clock, rx, i2c, cb,
                   nStarts>>

\* lines 240-250
StartRX ==
    /\ pc = "rxstart"
    /\ IF StartUsesRX
       THEN \E ok \in BOOLEAN :
              /\ hw' = hw \o << EvDMAStart("RX", ok) >>
              /\ IF ok
                 THEN /\ rx' = DMAStarted("RXCompletedHandler")
                      /\ nTXRXOn' = nTXRXOn \cup CS_A_RXON \cup CS_A_RXSEX
                      /\ pc' = "enable"
                      /\ UNCHANGED <<m_bError, ret>>
                 ELSE /\ m_bError' = ErrorAfterDMAFailure
                      /\ pc' = "idle"
                      /\ ret' = [op |-> "Start", val |-> FALSE]
                      /\ UNCHANGED <<rx, nTXRXOn>>
       ELSE /\ pc' = "enable"
            /\ UNCHANGED <<m_bError, ret, rx, hw, nTXRXOn>>
    /\ UNCHANGED <<config, m_bI2CInited, regs, pins, clock, tx, i2c, cb,
                   nStarts>>

\* a faulty variant of StartEnable: Start returns without PeripheralExit
StartEnable_NoExit ==
    /\ pc = "enable"
    /\ LET cs == regs["CS_A"] \cup nTXRXOn
       IN  /\ regs' = [regs EXCEPT !["CS_A"] = cs]
           /\ hw' = hw \o << Ev("PeripheralEntry"), EvRead("CS_A"),
                             EvWrite("CS_A", cs) >>
    /\ pc' = "idle"
    /\ ret' = [op |-> "Start", val |-> TRUE]
    /\ UNCHANGED <<config, m_bI2CInited, m_bError, pins, clock, tx, rx, i2c,
                   nTXRXOn, cb, nStarts>>

\* lines 252-259
StartEnable ==
    /\ pc = "enable"
    /\ LET cs == regs["CS_A"] \cup nTXRXOn
       IN  /\ regs' = [regs EXCEPT !["CS_A"] = cs]
           /\ hw' = hw \o << Ev("PeripheralEntry"), EvRead("CS_A"),
                             EvWrite("CS_A", cs), Ev("PeripheralExit") >>
    /\ pc' = "idle"
    /\ ret' = [op |-> "Start", val |-> TRUE]
    /\ UNCHANGED <<config, m_bI2CInited, m_bError, pins, clock, tx, rx, i2c,
                   nTXRXOn, cb, nStarts>>

\* ------------------------------------------------------- Cancel, IsActive

\* a faulty variant of CancelUsesTX: the TX buffers are cancelled in every mode
CancelUsesTX_Always == TRUE

\* line 264
CancelUsesTX == m_DeviceMode # "RXOnly"
\* a faulty variant of CancelUsesRX: the RX buffers are never cancelled
CancelUsesRX_Never == FALSE

\* line 269
CancelUsesRX == m_DeviceMode # "TXOnly"

\* CI2SSoundBaseDevice::Cancel
Cancel ==
    /\ pc = "idle"
    /\ tx' = IF CancelUsesTX THEN DMACancel(tx) ELSE tx
    /\ rx' = IF CancelUsesRX THEN DMACancel(rx) ELSE rx
    /\ ret' = [op |-> "Cancel", val |-> FALSE]
    /\ UNCHANGED <<config, m_bI2CInited, m_bError, regs, pins, clock, i2c, hw,
                   pc, nTXRXOn, cb, nStarts>>

\* a faulty variant of IsActiveValue: the device mode is not looked at
IsActiveValue_AnyMode(mode, txActive, rxActive) == txActive \/ rxActive

\* what IsActive returns when the two DMA buffers report txActive and rxActive
IsActiveValue(mode, txActive, rxActive) ==
    IF mode # "RXOnly" /\ txActive
    THEN TRUE
    ELSE IF mode # "TXOnly" /\ rxActive
         THEN TRUE
         ELSE FALSE

\* CI2SSoundBaseDevice::IsActive
IsActive ==
    /\ pc = "idle"
    /\ ret' = [op |-> "IsActive",
               val |-> IsActiveValue(m_DeviceMode, DMAIsActive(tx),
                                     DMAIsActive(rx))]
    /\ UNCHANGED <<config, m_bI2CInited, m_bError, regs, pins, clock, tx, rx,
                   i2c, hw, pc, nTXRXOn, cb, nStarts>>

\* ------------------------------------------------------- completion handlers

\* a faulty variant of ErrorAfterHandler: a failed transfer is not recorded
ErrorAfterHandler_Never(bStatus) == m_bError

\* a faulty variant of ErrorAfterHandler: m_bError = !bStatus, which a good chunk clears
ErrorAfterHandler_Assign(bStatus) == ~bStatus

\* lines 413-418 and 429-434: m_bError after a handler has run
ErrorAfterHandler(bStatus) == IF ~bStatus THEN TRUE ELSE m_bError

\* CI2SSoundBaseDevice::TXCompletedHandler, called by the running TX buffers
TXCompletedHandler ==
    /\ pc \notin {"new", "destroyed"}
    /\ tx.active
    /\ tx.handler = "TXCompletedHandler"
    /\ \E bStatus \in BOOLEAN :
         /\ m_bError' = ErrorAfterHandler(bStatus)
         /\ IF ~bStatus
            THEN cb' = [handler |-> "TX", bStatus |-> FALSE, chunk |-> FALSE,
                        ret |-> 0]
            ELSE \E n \in GetChunkResults(m_nChunkSize) :
                    cb' = [handler |-> "TX", bStatus |-> TRUE, chunk |-> TRUE,
                           ret |-> n]
    /\ UNCHANGED <<config, m_bI2CInited, regs, pins, clock, tx, rx, i2c, hw,
                   pc, nTXRXOn, ret, nStarts>>

\* CI2SSoundBaseDevice::RXCompletedHandler, called by the running RX buffers
RXCompletedHandler ==
    /\ pc \notin {"new", "destroyed"}
    /\ rx.active
    /\ rx.handler = "RXCompletedHandler"
    /\ \E bStatus \in BOOLEAN :
         /\ m_bError' = ErrorAfterHandler(bStatus)
         /\ cb' = [handler |-> "RX", bStatus |-> bStatus, chunk |-> bStatus,
                   ret |-> 0]
    /\ UNCHANGED <<config, m_bI2CInited, regs, pins, clock, tx, rx, i2c, hw,
                   pc, nTXRXOn, ret, nStarts>>

\* the TX buffers stop some time after Cancel
DMAStopTX ==
    /\ pc \notin {"new", "destroyed"}
    /\ tx.active /\ tx.cancel
    /\ tx' = [tx EXCEPT !.active = FALSE]
    /\ UNCHANGED <<config, m_bI2CInited, m_bError, regs, pins, clock, rx, i2c,
                   hw, pc, nTXRXOn, ret, cb, nStarts>>

\* the RX buffers stop some time after Cancel
DMAStopRX ==
    /\ pc \notin {"new", "destroyed"}
    /\ rx.active /\ rx.cancel
    /\ rx' = [rx EXCEPT !.active = FALSE]
    /\ UNCHANGED <<config, m_bI2CInited, m_bError, regs, pins, clock, tx, i2c,
                   hw, pc, nTXRXOn, ret, cb, nStarts>>

\* ------------------------------------------------------- specification

Next ==
    \/ Construct
    \/ Destroy
    \/ StartEntry
    \/ StartCodec
    \/ StartDMAEnable
    \/ StartTX
    \/ StartRX
    \/ StartEnable
    \/ Cancel
    \/ IsActive
    \/ TXCompletedHandler
    \/ RXCompletedHandler
    \/ DMAStopTX
    \/ DMAStopRX

Spec == Init /\ [][Next]_vars

\* ------------------------------------------------------- reading the logs

Last(q) == q[Len(q)]

\* the events a step appends to the hardware log
NewHw == SubSeq(hw', Len(hw) + 1, Len(hw'))
\* the Init calls a step appends to the two-wire log
NewI2C == SubSeq(i2c', Len(i2c) + 1, Len(i2c'))

IsDMAStart(e, dir, ok) == e.ev = "DMAStart" /\ e.dir = dir /\ e.ok = ok
IsCSWrite(e) == e.ev = "write32" /\ e.reg = "CS_A"
IsCodecCall(e) == e.ev \in {"InitPCM51xx", "InitWM8960"}
IsPinCall(e, pin) == e.ev \in {"AssignPin", "SetMode"} /\ e.pin = pin

\* a DMA start of direction dir that failed is in the log
DMAStartFailed(dir) == \E i \in DOMAIN hw : IsDMAStart(hw[i], dir, FALSE)
\* successful DMA starts of direction dir in the log
DMAStartsOK(dir) == Cardinality({i \in DOMAIN hw : IsDMAStart(hw[i], dir, TRUE)})

StartReturned(val) == pc = "idle" /\ ret = [op |-> "Start", val |-> val]

\* ------------------------------------------------------- C1

\* C1: whenever Start is called with the fault flag set, it returns FALSE at
\* once and does nothing else: no register is written, no call is made to a
\* peripheral, no two-wire transaction is sent and no DMA buffer is started.
C1_StartRefusedWhenFaulted ==
    [][ (m_bError /\ nStarts' = nStarts + 1)
          => /\ pc' = "idle"
             /\ ret' = [op |-> "Start", val |-> FALSE]
             /\ UNCHANGED <<regs, hw, i2c, tx, rx, pins, clock, m_bI2CInited,
                            m_bError>> ]_vars

\* a second Start has been refused after a completion handler reported a
\* failure: no bring-up and no DMA start has failed, so only the handler set
\* the flag, and only the refusal makes Start return FALSE
C1_Witness ==
    /\ StartReturned(FALSE)
    /\ nStarts = 2
    /\ m_bError
    /\ ~DMAStartFailed("TX") /\ ~DMAStartFailed("RX")
    /\ \A k \in DOMAIN i2c : i2c[k].ok \/ m_ucI2CAddress = 0
    /\ DMAStartsOK("TX") = 1

\* ------------------------------------------------------- C2

\* C2: the fault flag is never cleared: no step of Start, Cancel, IsActive, a
\* completion handler or the DMA buffers takes m_bError from TRUE to FALSE.
C2_FaultFlagMonotonic == [][ m_bError => m_bError' ]_vars

\* the flag was set by a fatal bring-up, IsActive was called afterwards, and
\* the flag is still set
C2_Witness ==
    /\ m_bError
    /\ m_ucI2CAddress # 0
    /\ i2c # <<>> /\ ~i2c[1].ok
    /\ pc = "idle" /\ ret.op = "IsActive"

\* ------------------------------------------------------- C3

\* C3: every two-wire transaction of the object's lifetime is sent by one and
\* the same call of Start, and that call is the first one: a later Start,
\* whatever the first one's probing found, sends nothing.
C3_CodecBringUpOnce ==
    /\ \A j, k \in DOMAIN i2c : i2c[j].start = i2c[k].start
    /\ \A k \in DOMAIN i2c : i2c[k].start = 1 /\ i2c[k].sent # <<>>

\* Start has succeeded twice with a control bus and address 0, and every
\* candidate of the first Start's probing failed
C3_Witness ==
    /\ StartReturned(TRUE)
    /\ nStarts = 2
    /\ DMAStartsOK("TX") = 2
    /\ m_pI2CMaster /\ m_ucI2CAddress = 0 /\ m_DeviceMode # "RXOnly"
    /\ Len(i2c) = 3
    /\ \A k \in DOMAIN i2c : ~i2c[k].ok

\* ------------------------------------------------------- C4

\* the Init calls of an auto probing, in the order 0x4C, 0x4D, 0x1A, each
\* made only if the one before it failed
ProbeOrder(calls) ==
    /\ Len(calls) \in 1..3
    /\ calls[1].variant = "InitPCM51xx" /\ calls[1].addr = ADDR_PCM51XX_1
    /\ Len(calls) >= 2 <=> ~calls[1].ok
    /\ Len(calls) >= 2 =>
         /\ calls[2].variant = "InitPCM51xx" /\ calls[2].addr = ADDR_PCM51XX_2
         /\ Len(calls) = 3 <=> ~calls[2].ok
    /\ Len(calls) = 3 =>
         calls[3].variant = "InitWM8960" /\ calls[3].addr = ADDR_WM8960

\* C4: with address 0 the bring-up step of Start calls InitPCM51xx (0x4C),
\* then InitPCM51xx (0x4D) iff that failed, then InitWM8960 (0x1A) iff that
\* failed too; whatever they return, the step leaves the fault flag alone and
\* Start goes on to its DMA part; and Start returns FALSE only from a DMA
\* start that failed.
C4_AutoProbe ==
    [][ m_ucI2CAddress = 0
          => /\ (pc = "codec" /\ pc' # "codec")
                  => /\ pc' = "dmaen"
                     /\ m_bError' = m_bError
                     /\ NewI2C # <<>> => ProbeOrder(NewI2C)
                     /\ NewI2C # <<>> <=>
                          (m_pI2CMaster /\ m_DeviceMode # "RXOnly" /\ nStarts = 1)
             /\ (pc \in {"codec", "dmaen", "txstart", "rxstart", "enable"}
                   /\ pc' = "idle")
                  => \/ ret' = [op |-> "Start", val |-> TRUE]
                     \/ /\ ret' = [op |-> "Start", val |-> FALSE]
                        /\ Last(hw').ev = "DMAStart" /\ ~Last(hw').ok ]_vars

\* all three candidates failed and Start returned TRUE without a fault
C4_Witness ==
    /\ StartReturned(TRUE)
    /\ ~m_bError
    /\ m_ucI2CAddress = 0
    /\ Len(i2c) = 3
    /\ \A k \in DOMAIN i2c : ~i2c[k].ok
    /\ nStarts = 1

\* ------------------------------------------------------- C5

\* C5: with a nonzero address the bring-up step of Start makes exactly one
\* Init call, to that address: InitWM8960 iff the address is 0x1A, else
\* InitPCM51xx; when the call fails, the fault flag is set and Start returns
\* FALSE; when it succeeds, Start goes on.
C5_FixedAddress ==
    [][ (m_ucI2CAddress # 0 /\ pc = "codec" /\ pc' # "codec")
          => /\ NewI2C # <<>> <=>
                  (m_pI2CMaster /\ m_DeviceMode # "RXOnly" /\ nStarts = 1)
             /\ NewI2C # <<>> =>
                  /\ Len(NewI2C) = 1
                  /\ NewI2C[1].addr = m_ucI2CAddress
                  /\ NewI2C[1].variant = "InitWM8960"
                       <=> m_ucI2CAddress = ADDR_WM8960
                  /\ NewI2C[1].variant = "InitPCM51xx"
                       <=> m_ucI2CAddress # ADDR_WM8960
                  /\ ~NewI2C[1].ok
                       => /\ m_bError'
                          /\ pc' = "idle"
                          /\ ret' = [op |-> "Start", val |-> FALSE]
                  /\ NewI2C[1].ok => pc' = "dmaen" /\ m_bError' = m_bError ]_vars

\* the bring-up of the WM8960 at 0x1A failed: the fault flag is set and Start
\* returned FALSE
C5_Witness ==
    /\ StartReturned(FALSE)
    /\ m_bError
    /\ m_ucI2CAddress = ADDR_WM8960
    /\ Len(i2c) = 1
    /\ i2c[1].variant = "InitWM8960" /\ ~i2c[1].ok

\* ------------------------------------------------------- C6

\* the directions the device mode requires
Required == (IF m_DeviceMode # "RXOnly" THEN {"TX"} ELSE {})
              \cup (IF m_DeviceMode # "TXOnly" THEN {"RX"} ELSE {})

\* the TXON and RXON bits of a CS_A value
EnableBits(val) == val \cap (CS_A_TXON \cup CS_A_RXON)

\* the DMA buffers of direction dir are running
Running(dir) == IF dir = "TX" THEN tx.active ELSE rx.active

\* C6: every write of CS_A that has the TXON or the RXON bit set comes after a
\* successful start of the DMA buffers of every direction the mode requires;
\* so in every state a set TXON (RXON) bit means the TX (RX) buffers were
\* started, with their handler registered.  A step that turns one of the two
\* bits on (a repeated Start writes them back as they are) is the last step
\* of Start, taken when the last calls made were the successful DMA starts of
\* every required direction, whose buffers are then running; it turns on
\* TXON iff TX is required and RXON iff RX is.
C6_EnableAfterDMAStart ==
    /\ [](/\ \A i \in DOMAIN hw :
               (IsCSWrite(hw[i]) /\ EnableBits(hw[i].val) # {})
                 => \A dir \in Required :
                       \E j \in 1..(i - 1) : IsDMAStart(hw[j], dir, TRUE)
          /\ CS_A_TXON \subseteq regs["CS_A"]
               => tx.handler = "TXCompletedHandler" /\ DMAStartsOK("TX") >= 1
          /\ CS_A_RXON \subseteq regs["CS_A"]
               => rx.handler = "RXCompletedHandler" /\ DMAStartsOK("RX") >= 1)
    /\ [][ ~(EnableBits(regs'["CS_A"]) \subseteq EnableBits(regs["CS_A"]))
             => /\ pc = "enable"
                /\ \A dir \in Required :
                     /\ Running(dir)
                     /\ \E j \in (Len(hw) - Cardinality(Required) + 1)..Len(hw) :
                           IsDMAStart(hw[j], dir, TRUE)
                /\ CS_A_TXON \subseteq regs'["CS_A"] <=> "TX" \in Required
                /\ CS_A_RXON \subseteq regs'["CS_A"] <=> "RX" \in Required ]_vars

\* a duplex device whose Start has set both bits
C6_Witness ==
    /\ StartReturned(TRUE)
    /\ m_DeviceMode = "Duplex"
    /\ CS_A_TXON \cup CS_A_RXON \cup CS_A_RXSEX \subseteq regs["CS_A"]
    /\ Last(hw).ev = "PeripheralExit"

\* ------------------------------------------------------- C7

\* C7: the step of Start in which a DMA start fails sets the fault flag and
\* makes Start return FALSE, and changes nothing else: the DMA buffers of
\* both directions stay as they were (TX, started by the same call, keeps
\* running uncancelled) and no register is written.
C7_DMAStartFailure ==
    [][ (pc \in {"txstart", "rxstart"} /\ NewHw # <<>> /\ ~Last(hw').ok)
          => /\ m_bError'
             /\ pc' = "idle"
             /\ ret' = [op |-> "Start", val |-> FALSE]
             /\ NewHw = << EvDMAStart(IF pc = "txstart" THEN "TX" ELSE "RX",
                                      FALSE) >>
             /\ UNCHANGED <<tx, rx, regs, pins, clock, i2c, m_bI2CInited>> ]_vars

\* the RX start of a duplex device failed right after its TX start succeeded:
\* TX is running and not cancelled
C7_Witness ==
    /\ StartReturned(FALSE)
    /\ m_DeviceMode = "Duplex"
    /\ nStarts = 1
    /\ Len(hw) >= 2
    /\ IsDMAStart(Last(hw), "RX", FALSE)
    /\ IsDMAStart(hw[Len(hw) - 1], "TX", TRUE)
    /\ tx.active /\ ~tx.cancel
    /\ m_bError

\* ------------------------------------------------------- C8

\* nothing was ever done with this pin object
PinUntouched(pin) ==
    /\ pins[pin] = [pin |-> -1, mode |-> "Unknown"]
    /\ \A i \in DOMAIN hw : ~IsPinCall(hw[i], pin)

\* the DMA buffers of this direction were never started
NeverStarted(dir, d) ==
    /\ d = [active |-> FALSE, cancel |-> FALSE, handler |-> "none"]
    /\ \A i \in DOMAIN hw : ~(hw[i].ev = "DMAStart" /\ hw[i].dir = dir)

\* C8: from construction to destruction, a TXOnly device never assigns the
\* data-in pin or sets its mode and never starts (or cancels) the RX buffers;
\* an RXOnly device never touches the data-out pin, never starts the TX
\* buffers and never sends a two-wire transaction.
C8_ModeGating ==
    /\ m_DeviceMode = "TXOnly"
         => PinUntouched("PCMDIN") /\ NeverStarted("RX", rx)
    /\ m_DeviceMode = "RXOnly"
         => /\ PinUntouched("PCMDOUT")
            /\ NeverStarted("TX", tx)
            /\ i2c = <<>>
            /\ \A i \in DOMAIN hw : ~IsCodecCall(hw[i])
            /\ ~m_bI2CInited

\* an RXOnly device with a control bus was started, cancelled and destroyed
C8_Witness ==
    /\ pc = "destroyed"
    /\ m_DeviceMode = "RXOnly"
    /\ m_pI2CMaster
    /\ DMAStartsOK("RX") >= 1
    /\ rx.cancel
    /\ pins["PCMDIN"].mode = "Input"

\* ------------------------------------------------------- C9

\* C9: Cancel, in any state, asks the TX buffers to stop iff the mode is not
\* RXOnly and the RX buffers iff it is not TXOnly, returns without waiting
\* (what is active stays active), and leaves the fault flag, m_bI2CInited,
\* the registers, the pins and the clock as they were.
C9_CancelFrame ==
    [][ Cancel
          => /\ tx' = IF m_DeviceMode # "RXOnly"
                      THEN [tx EXCEPT !.cancel = TRUE] ELSE tx
             /\ rx' = IF m_DeviceMode # "TXOnly"
                      THEN [rx EXCEPT !.cancel = TRUE] ELSE rx
             /\ tx'.active = tx.active /\ rx'.active = rx.active
             /\ pc' = "idle"
             /\ UNCHANGED <<m_bError, m_bI2CInited, regs, pins, clock, hw,
                            i2c>> ]_vars

\* Cancel was called on a duplex device after its Start had failed: the
\* running TX buffers are asked to stop and still active
C9_Witness ==
    /\ pc = "idle" /\ ret.op = "Cancel"
    /\ m_DeviceMode = "Duplex"
    /\ m_bError
    /\ DMAStartFailed("RX")
    /\ tx.active /\ tx.cancel
    /\ rx.cancel /\ ~rx.active

\* ------------------------------------------------------- C10

\* C10: IsActive returns TRUE iff the mode is not RXOnly and the TX buffers
\* are active, or the mode is not TXOnly and the RX buffers are active;
\* whatever the buffers of a direction the mode does not use report, the
\* result is the same; the fault flag has no part in it; and IsActive
\* changes nothing.
C10_IsActive ==
    [][ IsActive
          => /\ ret'.op = "IsActive"
             /\ ret'.val <=> \/ m_DeviceMode # "RXOnly" /\ tx.active
                             \/ m_DeviceMode # "TXOnly" /\ rx.active
             /\ \A a, b \in BOOLEAN :
                  /\ IsActiveValue("TXOnly", a, b) = a
                  /\ IsActiveValue("RXOnly", a, b) = b
                  /\ IsActiveValue("Duplex", a, b) = (a \/ b)
             /\ UNCHANGED <<m_bError, m_bI2CInited, regs, pins, clock, hw, i2c,
                            tx, rx, pc>> ]_vars

\* IsActive returned TRUE on a faulted duplex device of which only RX runs
C10_Witness ==
    /\ pc = "idle"
    /\ ret = [op |-> "IsActive", val |-> TRUE]
    /\ m_DeviceMode = "Duplex"
    /\ m_bError
    /\ ~tx.active /\ rx.active

\* ------------------------------------------------------- C11

\* the scenario's device: Duplex, master, chunk size 32, a control bus, address 0
InitScenario ==
    /\ Init
    /\ m_DeviceMode = "Duplex"
    /\ ~m_bSlave
    /\ m_nChunkSize = 32
    /\ m_pI2CMaster
    /\ m_ucI2CAddress = 0

\* the DMA controller stops, in the end, a direction that was cancelled
SpecScenario ==
    /\ InitScenario
    /\ [][Next]_vars
    /\ WF_vars(DMAStopTX)
    /\ WF_vars(DMAStopRX)

\* what IsActive would return now
ActiveNow == IsActiveValue(m_DeviceMode, DMAIsActive(tx), DMAIsActive(rx))

\* the first Start has returned after a probing in which every transaction
\* failed
FirstStartProbedInVain ==
    /\ pc = "idle" /\ ret.op = "Start" /\ nStarts = 1
    /\ Len(i2c) = 3
    /\ \A k \in DOMAIN i2c : \A t \in DOMAIN i2c[k].sent :
          i2c[k].sent[t].ret # CMD_SIZE

InitClock ==
    /\ m_nChunkSize = 32
    /\ m_bSlave = FALSE
    /\ m_pI2CMaster = FALSE
    /\ m_ucI2CAddress = 0
    /\ m_DeviceMode = "Duplex"
    /\ nSampleRate \in SampleRatesWide
    /\ nClockFreq \in ClockFreqsWide
    /\ bEarlyModel = FALSE
    /\ InitState

\* construction, which computes the divider and starts the clock with it, and
\* destruction
NextClock == Construct \/ Destroy

SpecClock == InitClock /\ [][NextClock]_vars

\* the calls of m_Clock.Start so far
ClockStarts == {k \in DOMAIN hw : hw[k].ev = "ClockStart"}

\* B = F/64 and R = B mod S of the device
ClockB == nClockFreq \div 64
ClockR == ClockB % nSampleRate

Abs(x) == IF x < 0 THEN 0 - x ELSE x

\* (4096*DivI + DivF) * S - 4096*B for the pair d, computed without leaving
\* the 32-bit range: B = (B div S)*S + R
Deviation(d) ==
    4096 * nSampleRate * (d.divI - ClockB \div nSampleRate)
      + d.divF * nSampleRate - 4096 * ClockR

\* the same, as written, where 4096*B is small enough
DeviationAsWritten(d) ==
    (4096 * d.divI + d.divF) * nSampleRate - 4096 * ClockB

\* C12 as claimed: for every clock rate F > 0 divisible by 64 and every sample
\* rate in 8000..192000, the pair given to the clock generator has DivI >= 1
\* and 0 <= DivF <= 4095.
C12_AsClaimed ==
    \A k \in ClockStarts :
       hw[k].divI >= 1 /\ 0 <= hw[k].divF /\ hw[k].divF <= 4095

\* C12, amended: for every clock rate F > 0 divisible by 64 and every sample
\* rate S in 8000..192000 the pair has 0 <= DivF <= 4095, and it has
\* DivI >= 1 if F/64 >= S; below that DivI is 0 unless the fraction carries.
C12_DividerRange ==
    \A k \in ClockStarts :
       /\ 0 <= hw[k].divF /\ hw[k].divF <= 4095
       /\ ClockB >= nSampleRate => hw[k].divI >= 1
       /\ (ClockB < nSampleRate /\ hw[k].divF > 0) => hw[k].divI = 0

\* the clock is started at the least rate that gives DivI >= 1: F/64 = S
C12_Witness ==
    /\ pc = "idle" /\ clock.running
    /\ ClockB = nSampleRate
    /\ \E k \in ClockStarts : hw[k].divI = 1 /\ hw[k].divF = 0

\* C13 as claimed: for every F divisible by 64 and every S in 8000..192000 the
\* pair is within B of the exact ratio: |(4096*DivI + DivF)*S - 4096*B| <= B.
C13_AsClaimed ==
    \A k \in ClockStarts : Abs(Deviation(hw[k])) <= ClockB

\* C13, amended: for every F divisible by 64 with B = F/64 >= S div 2, and
\* every S in 8000..192000, |(4096*DivI + DivF)*S - 4096*B| <= B.
C13_DividerAccuracy ==
    \A k \in ClockStarts :
       ClockB >= nSampleRate \div 2 =>
          /\ Abs(Deviation(hw[k])) <= ClockB
          /\ ClockB <= 500000 =>
                DeviationAsWritten(hw[k]) = Deviation(hw[k])

\* a clock below the sample rate, yet at least half of it, is started with a
\* pair that is not exact
C13_Witness ==
    /\ pc = "idle" /\ clock.running
    /\ ClockB < nSampleRate /\ ClockB >= nSampleRate \div 2
    /\ ClockStarts # {}
    /\ \A k \in ClockStarts : Deviation(hw[k]) # 0

\* C14 as claimed: F = 19200000 and S = 44100 give B = 300000, DivI = 6,
\* R = 24600 and DivF = 2285.
C14_AsClaimed ==
    \A k \in ClockStarts :
       (nClockFreq = 19200000 /\ nSampleRate = 44100) =>
          /\ ClockB = 300000
          /\ hw[k].divI = 6
          /\ ClockTemp(nClockFreq, nSampleRate) = 24600
          /\ hw[k].divF = 2285

\* C14, amended: F = 19200000 and S = 44100 give B = 300000, DivI = 6,
\* R = 35400 and DivF = 3288.
C14_WorkedExample ==
    \A k \in ClockStarts :
       (nClockFreq = 19200000 /\ nSampleRate = 44100) =>
          /\ ClockB = 300000
          /\ hw[k].divI = 6
          /\ ClockTemp(nClockFreq, nSampleRate) = 35400
          /\ hw[k].divF = 3288

\* the clock of the example has been started
C14_Witness ==
    /\ nClockFreq = 19200000 /\ nSampleRate = 44100
    /\ pc = "idle" /\ clock.running /\ clock.divI = 6 /\ clock.mash = 1
    /\ ClockStarts # {}

\* C16: for all F divisible by 64 and S in 8000..192000, with B = F/64 and
\* R = B mod S, the pair given to the clock generator is
\* (B div S, (R*4096 + S div 2) div S) when the latter is at most 4095 and
\* (B div S + 1, 0) when it is 4096; it never exceeds 4096; and the third
\* argument is 1 if DivF > 0 and 0 otherwise.
C16_DividerAlgorithm ==
    \A k \in ClockStarts :
       LET frac == (ClockR * 4096 + nSampleRate \div 2) \div nSampleRate
       IN  /\ frac <= 4096
           /\ frac <= 4095 =>
                 /\ hw[k].divI = ClockB \div nSampleRate
                 /\ hw[k].divF = frac
           /\ frac = 4096 =>
                 /\ hw[k].divI = ClockB \div nSampleRate + 1
                 /\ hw[k].divF = 0
           /\ hw[k].mash \in {0, 1}
           /\ hw[k].mash = 1 <=> hw[k].divF > 0

\* the clock has been started after a carry: B = S - 1 at S = 192000
C16_Witness ==
    /\ pc = "idle" /\ clock.running
    /\ (ClockR * 4096 + nSampleRate \div 2) \div nSampleRate = 4096
    /\ clock.divI = 1 /\ clock.divF = 0 /\ clock.mash = 0
    /\ ClockStarts # {}

\* ------------------------------------------------------- C15

\* C15: destruction, in whatever state (never started, a direction still
\* reported active, cancelled, fault flag set), writes 0 to the control
\* register, stops the clock generator if the device is the clock master, and
\* sets the pins claimed at construction to input mode.
C15_UnconditionalTeardown ==
    /\ [](pc = "destroyed" =>
            /\ regs["CS_A"] = {}
            /\ ~m_bSlave => ~clock.running
            /\ \A p \in PinNames : pins[p].pin # -1 => pins[p].mode = "Input")
    /\ [][ pc' = "destroyed" =>
            /\ \E k \in DOMAIN NewHw : NewHw[k] = EvWrite("CS_A", {})
            /\ ~m_bSlave => \E k \in DOMAIN NewHw : NewHw[k].ev = "ClockStop"
            /\ \A p \in PinNames :
                  pins[p].pin # -1 =>
                     \E k \in DOMAIN NewHw : NewHw[k] = EvSetMode(p, "Input")
         ]_vars

\* a master device is destroyed with its fault flag set while both directions
\* are still reported active
C15_Witness ==
    /\ pc = "destroyed" /\ ~m_bSlave /\ m_DeviceMode = "Duplex"
    /\ m_bError /\ tx.active /\ rx.active
    /\ ~clock.running /\ regs["CS_A"] = {}
    /\ pins["PCMDIN"].mode = "Input"

\* ------------------------------------------------------- C17

\* how many of the events a step appends to the hardware log are named name
NewCount(name) == Cardinality({k \in DOMAIN NewHw : NewHw[k].ev = name})

\* C17: a slave device never calls Start or Stop of the clock generator and
\* leaves it as it was, with no divider in it; a master device starts it once,
\* in the constructor, and stops it once, in the destructor, and nowhere else.
C17_SlaveLeavesClock ==
    /\ [](m_bSlave =>
            clock = [running |-> FALSE, divI |-> 0, divF |-> 0, mash |-> 0])
    /\ [](~m_bSlave => (clock.running <=> pc \notin {"new", "destroyed"}))
    /\ [][ /\ NewCount("ClockStart")
                = (IF ~m_bSlave /\ pc = "new" THEN 1 ELSE 0)
           /\ NewCount("ClockStop")
                = (IF ~m_bSlave /\ pc' = "destroyed" THEN 1 ELSE 0)
         ]_vars

\* a slave device was started, cancelled and destroyed
C17_Witness ==
    /\ m_bSlave /\ pc = "destroyed"
    /\ nStarts >= 1 /\ DMAStartsOK("TX") >= 1 /\ tx.cancel
    /\ ~clock.running /\ regs["CS_A"] = {}

\* ------------------------------------------------------- C20

\* the pins a device of this mode uses: clock and frame sync always, data in
\* unless it only transmits, data out unless it only receives
Claimed(mode) ==
    {"PCMCLK", "PCMFS"}
      \cup (IF mode # "TXOnly" THEN {"PCMDIN"} ELSE {})
      \cup (IF mode # "RXOnly" THEN {"PCMDOUT"} ELSE {})

\* the pins named by the events called name that a step appends
NewPins(name) == {NewHw[k].pin : k \in {j \in DOMAIN NewHw : NewHw[j].ev = name}}

\* C20: for each device mode the pins the destructor sets to input mode are the
\* pins the constructor assigned, which are the pins the mode uses; a pin that
\* was not assigned is never given a mode.
C20_TeardownRevertsClaimedPins ==
    /\ [][ pc = "new" =>
             /\ NewPins("AssignPin") = Claimed(m_DeviceMode)
             /\ \A p \in PinNames :
                   pins'[p].pin # -1 <=> p \in NewPins("AssignPin")
         ]_vars
    /\ [][ pc' = "destroyed" =>
             /\ NewPins("SetMode") = {p \in PinNames : pins[p].pin # -1}
             /\ NewPins("SetMode") = Claimed(m_DeviceMode)
             /\ \A k \in DOMAIN NewHw :
                   NewHw[k].ev = "SetMode" => NewHw[k].mode = "Input"
         ]_vars
    /\ [][ pc # "new" => NewPins("AssignPin") = {} ]_vars
    /\ [][ NewPins("SetMode") \subseteq {p \in PinNames : pins'[p].pin # -1}
         ]_vars
    /\ [](\A p \in PinNames :
            pins[p].pin = -1 => pins[p].mode = "Unknown")

\* a receive-only device was destroyed: data in is an input again, data out
\* was never touched
C20_Witness ==
    /\ pc = "destroyed" /\ m_DeviceMode = "RXOnly"
    /\ pins["PCMDIN"].pin # -1 /\ pins["PCMDIN"].mode = "Input"
    /\ pins["PCMCLK"].mode = "Input" /\ pins["PCMFS"].mode = "Input"
    /\ pins["PCMDOUT"] = [pin |-> -1, mode |-> "Unknown"]

\* ------------------------------------------------------- C18

\* the places in the sequence q of the writes to the register reg
WritesTo(q, reg) ==
    {k \in DOMAIN q : q[k].ev = "write32" /\ q[k].reg = reg}

\* the bring-up order, as read off the events q of one RunI2S
BringUpInOrder(q, bSlave) ==
    \E k1, k2, k3, k4 \in WritesTo(q, "CS_A") :
    \E t \in WritesTo(q, "TXC_A") :
    \E r \in WritesTo(q, "RXC_A") :
    \E m \in WritesTo(q, "MODE_A") :
       LET pinCalls == {k \in DOMAIN q : q[k].ev \in {"AssignPin", "SetMode"}}
       IN  /\ WritesTo(q, "CS_A") = {k1, k2, k3, k4}
           /\ WritesTo(q, "TXC_A") = {t}
           /\ WritesTo(q, "RXC_A") = {r}
           /\ WritesTo(q, "MODE_A") = {m}
           \* (1) disabled, (2) FIFOs cleared
           /\ k1 < k2
           /\ q[k1].val = {}
           /\ (CS_A_TXCLR \cup CS_A_RXCLR) \subseteq q[k2].val
           /\ q[k2].val \cap (CS_A_STBY \cup CS_A_EN) = {}
           \* (3) both slot registers, (4) the frame mode
           /\ k2 < t /\ k2 < r /\ t < m /\ r < m
           /\ q[t].val # {} /\ q[r].val # {}
           /\ (MODE_A_CLKM \subseteq q[m].val) <=> bSlave
           /\ (MODE_A_FSM \subseteq q[m].val) <=> bSlave
           \* (5) the pins
           /\ pinCalls # {}
           /\ \A p \in pinCalls : m < p /\ p < k3
           \* (6) standby released, (7) enabled, as the last write
           /\ k3 < k4
           /\ CS_A_STBY \subseteq q[k3].val
           /\ q[k3].val \cap CS_A_EN = {}
           /\ CS_A_EN \subseteq q[k4].val
           /\ \A k \in DOMAIN q : q[k].ev = "write32" => k <= k4

\* C18: the constructor disables the device, clears both FIFOs, programs both
\* channel-slot registers (in every device mode), programs the frame mode with
\* clock and frame sync as inputs exactly for a slave, claims the pins,
\* releases standby and sets the enable bit, in this order; the enable bit is
\* set by the last write and no write before it sets it.
C18_BringUpOrder ==
    /\ [][ pc = "new" => BringUpInOrder(NewHw, m_bSlave) ]_vars
    /\ [](pc # "new" => \E k \in DOMAIN hw : hw[k].ev = "AddDevice")

\* a slave device that only transmits has been constructed
C18_Witness ==
    /\ pc = "idle" /\ m_bSlave /\ m_DeviceMode = "TXOnly" /\ nStarts = 0
    /\ Last(hw).ev = "AddDevice"
    /\ MODE_A_CLKM \subseteq regs["MODE_A"]
    /\ CS_A_EN \subseteq regs["CS_A"]
    /\ pins["PCMDOUT"].pin # -1

\* ------------------------------------------------------- C19

\* the events of q from place k on keep to the guard: PeripheralEntry and
\* PeripheralExit alternate, registers are read and written only between them,
\* a DMA start and a codec bring-up only outside, and it is released at the end
RECURSIVE GuardKept(_, _, _)
GuardKept(q, k, held) ==
    IF k > Len(q) THEN ~held
    ELSE CASE q[k].ev = "PeripheralEntry" -> ~held /\ GuardKept(q, k + 1, TRUE)
           [] q[k].ev = "PeripheralExit" -> held /\ GuardKept(q, k + 1, FALSE)
           [] q[k].ev \in {"read32", "write32"} ->
                 held /\ GuardKept(q, k + 1, held)
           [] q[k].ev \in {"DMAStart", "InitPCM51xx", "InitWM8960"} ->
                 ~held /\ GuardKept(q, k + 1, held)
           [] OTHER -> GuardKept(q, k + 1, held)

\* C19: in the constructor, in Start and in the destructor every register read
\* and write is made between PeripheralEntry and PeripheralExit, which
\* alternate; the guard is released where each of them returns, on every
\* return path of Start, and while a DMA direction is started or the codec is
\* brought up over the two-wire bus.
C19_BusGuard ==
    /\ [][ GuardKept(NewHw, 1, FALSE) ]_vars
    /\ [][ SubSeq(hw', 1, Len(hw)) = hw ]_vars
    /\ [][ (regs' # regs) =>
             \E k \in DOMAIN NewHw : NewHw[k].ev = "write32" ]_vars

\* Start has returned TRUE after the thresholds were written, the codec was
\* brought up and both directions were started
C19_Witness ==
    /\ StartReturned(TRUE) /\ m_DeviceMode = "Duplex" /\ m_nChunkSize = 32
    /\ m_bI2CInited
    /\ Last(hw).ev = "PeripheralExit"
    /\ \E k \in DOMAIN hw : hw[k] = EvRead("DREQ_A")
    /\ \E k \in DOMAIN hw : IsDMAStart(hw[k], "RX", TRUE)

\* ------------------------------------------------------- C21

\* the TX field, the RX field and the rest of a DREQ_A value
TXField(v) == v \cap DREQ_A_TX__MASK
RXField(v) == v \cap DREQ_A_RX__MASK
OtherFields(v) == v \ (DREQ_A_TX__MASK \cup DREQ_A_RX__MASK)

\* C21: Start writes DREQ_A if and only if the chunk size is below 64, once
\* for each direction the device mode uses: the TX field becomes 0x18 unless
\* the mode is RXOnly, the RX field becomes 0x18 unless the mode is TXOnly, and
\* a field not written keeps its value; with a chunk size of 64 or more no
\* step writes or changes DREQ_A.
C21_ThresholdGating ==
    /\ [][ (pc = "dmaen" /\ pc' = "txstart") =>
             LET small == m_nChunkSize < 64
                 useTX == m_DeviceMode # "RXOnly"
                 useRX == m_DeviceMode # "TXOnly"
                 old   == regs["DREQ_A"]
                 new   == regs'["DREQ_A"]
             IN  /\ Cardinality(WritesTo(NewHw, "DREQ_A"))
                      = (IF small /\ useTX THEN 1 ELSE 0)
                          + (IF small /\ useRX THEN 1 ELSE 0)
                 /\ TXField(new) = IF small /\ useTX
                                   THEN Shl(24, 8) ELSE TXField(old)
                 /\ RXField(new) = IF small /\ useRX
                                   THEN Shl(24, 0) ELSE RXField(old)
                 /\ OtherFields(new) = OtherFields(old)
                 /\ \A k \in WritesTo(NewHw, "DREQ_A") :
                       OtherFields(NewHw[k].val) = OtherFields(old)
         ]_vars
    /\ [][ ~(pc = "dmaen" /\ pc' = "txstart") =>
             /\ WritesTo(NewHw, "DREQ_A") = {}
             /\ regs'["DREQ_A"] = regs["DREQ_A"] ]_vars
    /\ [](m_nChunkSize >= 64 =>
            /\ regs["DREQ_A"] \in DREQResetValues
            /\ WritesTo(hw, "DREQ_A") = {})

\* a receive-only device with chunk size 32 was started: the RX threshold is
\* 0x18, the TX field is as it was
C21_Witness ==
    /\ StartReturned(TRUE) /\ m_DeviceMode = "RXOnly" /\ m_nChunkSize = 32
    /\ RXField(regs["DREQ_A"]) = Shl(24, 0)
    /\ TXField(regs["DREQ_A"]) = Shl(48, 8)
    /\ Cardinality(WritesTo(hw, "DREQ_A")) = 1

\* ------------------------------------------------------- C22

\* a step of TXCompletedHandler or RXCompletedHandler; cb' describes the call
HandlerStep == cb' # cb \/ (m_bError' # m_bError /\ pc' = pc)

\* C22: a completion handler called with bStatus = FALSE sets the fault flag,
\* returns 0, calls neither GetChunk nor PutChunk, and leaves both DMA
\* directions, the registers and the position of Start as they are; called
\* with bStatus = TRUE it leaves the fault flag as it is.
C22_HandlerOnFault ==
    [][ HandlerStep =>
          /\ cb'.handler \in {"TX", "RX"}
          /\ ~cb'.bStatus =>
                /\ m_bError'
                /\ cb'.ret = 0
                /\ ~cb'.chunk
                /\ tx' = tx /\ rx' = rx
                /\ regs' = regs /\ hw' = hw /\ pc' = pc
          /\ cb'.bStatus => m_bError' = m_bError
      ]_vars

\* the RX handler was told of a failed transfer while both directions run:
\* the flag is set and both directions are still active, none cancelled
C22_Witness ==
    /\ cb = [handler |-> "RX", bStatus |-> FALSE, chunk |-> FALSE, ret |-> 0]
    /\ m_bError
    /\ StartReturned(TRUE) /\ m_DeviceMode = "Duplex"
    /\ tx.active /\ rx.active /\ ~tx.cancel /\ ~rx.cancel

\* ------------------------------------------------------- C23

\* a device with a control bus, of any codec address
InitCodec ==
    /\ m_nChunkSize = 32
    /\ m_bSlave = FALSE
    /\ m_pI2CMaster = TRUE
    /\ m_ucI2CAddress \in I2CAddresses
    /\ m_DeviceMode = "Duplex"
    /\ nSampleRate \in SampleRates
    /\ nClockFreq \in ClockFreqs
    /\ bEarlyModel = FALSE
    /\ InitState

\* construction and the codec part of Start, the bus failing at any
\* transaction of any table
NextCodec == Construct \/ StartEntry \/ StartCodecAnyFailure

SpecCodec == InitCodec /\ [][NextCodec]_vars

\* the table of a bring-up variant
TableOf(variant) ==
    IF variant = "InitPCM51xx" THEN PCM51xxInitBytes ELSE WM8960InitBytes

\* C23: each bring-up call sends the entries of its table, in the order of the
\* table, as two-byte transactions to the address it was given; a transaction
\* that does not report 2 bytes is the last one sent and makes the call report
\* failure; the call reports success if and only if every entry of the table
\* was sent and reported 2 bytes.
C23_CodecTable ==
    \A k \in DOMAIN i2c :
       LET c == i2c[k]
           T == TableOf(c.variant)
           n == Len(c.sent)
       IN  /\ 1 <= n /\ n <= Len(T)
           /\ \A t \in 1..n :
                 /\ c.sent[t].addr = c.addr
                 /\ c.sent[t].data = T[t]
                 /\ Len(c.sent[t].data) = 2
                 /\ c.sent[t].len = 2
                 /\ c.sent[t].ret # 2 => t = n /\ ~c.ok
           /\ c.ok <=> (n = Len(T) /\ \A t \in 1..n : c.sent[t].ret = 2)

\* the bring-up of a WM8960 broke off at the fifteenth entry, of which one
\* byte went out
C23_Witness ==
    \E k \in DOMAIN i2c :
       /\ i2c[k].variant = "InitWM8960" /\ ~i2c[k].ok
       /\ Len(i2c[k].sent) = 15
       /\ i2c[k].sent[15].ret = 1
       /\ i2c[k].sent[15].data = <<38, 50>>

\* ------------------------------------------------------- C24

\* a write of this step to CS_A that has the TX or the RX enable bit in it
WritesEnableBits ==
    \E k \in WritesTo(NewHw, "CS_A") :
       NewHw[k].val \cap (CS_A_TXON \cup CS_A_RXON) # {}

\* C24: whatever completion handlers run during a call of Start, the fault
\* flag is not set when Start returns TRUE, and Start does not write the TX or
\* RX enable bit once the flag is set.
C24_StartSuccessImpliesNoFault ==
    /\ [][ (pc = "enable" /\ pc' = "idle" /\ ret'.val) => ~m_bError' ]_vars
    /\ [][ (pc \in {"dmaen", "enable"} /\ pc' # pc /\ m_bError)
              => ~WritesEnableBits ]_vars

\* ------------------------------------------------------- C25

\* the codec step of Start ends with a failed bring-up at a given address
FixedBringUpFailed ==
    /\ pc = "codec" /\ pc' # pc
    /\ m_ucI2CAddress # 0
    /\ NewI2C # <<>>
    /\ ~Last(NewI2C).ok

\* C25: a bring-up that fails at an address given to the constructor makes
\* Start return FALSE there and then: this call of Start has read and written
\* no register, has started no DMA direction and has not set m_bI2CInited.
C25_FatalCodecFailure ==
    /\ [][ FixedBringUpFailed =>
             /\ pc' = "idle" /\ ret' = [op |-> "Start", val |-> FALSE]
             /\ m_bError'
             /\ regs' = regs /\ tx' = tx /\ rx' = rx /\ nTXRXOn' = nTXRXOn
             /\ ~m_bI2CInited /\ ~m_bI2CInited'
             /\ \A k \in DOMAIN NewHw : IsCodecCall(NewHw[k])
         ]_vars
    /\ [][ (pc = "codec" /\ pc' = "idle") => FixedBringUpFailed ]_vars
    /\ [][ (pc = "idle" /\ pc' = "codec") =>
             regs' = regs /\ hw' = hw /\ tx' = tx /\ rx' = rx ]_vars
    /\ [][ (pc = "codec" /\ pc' = pc) => regs' = regs /\ hw' = hw ]_vars

\* Start has failed at the WM8960 address: no register beyond the bring-up of
\* the constructor is written, nothing runs, the codec flag is unset
C25_Witness ==
    /\ StartReturned(FALSE) /\ nStarts = 1 /\ m_ucI2CAddress = ADDR_WM8960
    /\ m_bError /\ ~m_bI2CInited
    /\ Len(i2c) = 1 /\ i2c[1].variant = "InitWM8960" /\ ~i2c[1].ok
    /\ ~tx.active /\ ~rx.active
    /\ regs["CS_A"] \cap (CS_A_DMAEN \cup CS_A_TXON \cup CS_A_RXON) = {}
    /\ WritesTo(hw, "DREQ_A") = {}

\* ------------------------------------------------------- the HD44780 display

HD44780_MAX_COLUMNS == 40
HD44780_MAX_ROWS == 4

\* what an unsigned 0 becomes when decremented; it stands for 0xFFFFFFFF, of
\* which only its being above every column and row count is used
UNSIGNED_WRAP == 2147483647

\* --n for an unsigned n
WrapDec(n) == IF n = 0 THEN UNSIGNED_WRAP ELSE n - 1

\* the characters Write tells apart, by their codes
Ch == [bs |-> 8, tab |-> 9, nl |-> 10, cr |-> 13, esc |-> 27, space |-> 32,
       star |-> 42, plus |-> 43, zero |-> 48, nine |-> 57, semicolon |-> 59,
       question |-> 63, A |-> 65, B |-> 66, C |-> 67, D |-> 68, H |-> 72,
       J |-> 74, K |-> 75, X |-> 88, bracket |-> 91, d |-> 100, h |-> 104,
       l |-> 108]

IsDigit(chChar) == Ch.zero <= chChar /\ chChar <= Ch.nine

\* the members of the display that Write reads and writes, as a record
LCD == [m_nState |-> m_nState, m_nCursorX |-> m_nCursorX,
        m_nCursorY |-> m_nCursorY, m_bCursorOn |-> m_bCursorOn,
        m_nParam1 |-> m_nParam1, m_nParam2 |-> m_nParam2,
        m_bAutoPage |-> m_bAutoPage, lcdFault |-> lcdFault]

\* what goes wrong when the cell (nPosX, nPosY) is addressed: the default
\* branch of GetDDRAMAddress asserts
AddressFaults(nPosX, nPosY) ==
    IF nPosY \notin 0..3 THEN {"assert"} ELSE {}

\* what goes wrong when m_Buffer[nPosY][nPosX] is written: the index may lie
\* outside the array, or inside it but outside the display
BufferFaults(nPosX, nPosY) ==
    (IF nPosX >= HD44780_MAX_COLUMNS \/ nPosY >= HD44780_MAX_ROWS
     THEN {"overrun"} ELSE {})
      \cup (IF nPosX >= m_nColumns \/ nPosY >= m_nRows
            THEN {"offscreen"} ELSE {})

\* SetChar, for every cell of a set: the characters written are not kept, as
\* no branch of the driver depends on them
SetChars(d, cells) ==
    [d EXCEPT !.lcdFault =
        @ \cup UNION {AddressFaults(c[1], c[2]) \cup BufferFaults(c[1], c[2]) :
                        c \in cells}]

SetChar(d, nPosX, nPosY) == SetChars(d, {<<nPosX, nPosY>>})

\* SetCursor: the cursor's cell is addressed if the cursor is shown
SetCursor(d) ==
    IF d.m_bCursorOn
    THEN [d EXCEPT !.lcdFault =
             @ \cup AddressFaults(d.m_nCursorX, d.m_nCursorY)]
    ELSE d

CarriageReturn(d) == [d EXCEPT !.m_nCursorX = 0]

ClearLineEnd(d) ==
    SetChars(d, {<<nPosX, d.m_nCursorY>> :
                    nPosX \in d.m_nCursorX..(m_nColumns - 1)})

ClearDisplayEnd(d) ==
    IF d.m_nCursorX = 0 /\ d.m_nCursorY = 0
    THEN [d EXCEPT !.lcdFault =
             @ \cup UNION {BufferFaults(nPosX, nPosY) :
                             nPosX \in 0..(m_nColumns - 1),
                             nPosY \in 0..(m_nRows - 1)}]
    ELSE SetChars(ClearLineEnd(d),
                  {<<nPosX, nPosY>> :
                      nPosX \in 0..(m_nColumns - 1),
                      nPosY \in (d.m_nCursorY + 1)..(m_nRows - 1)})

\* Scroll: every row but the first is copied one row up, the last is cleared
Scroll(d) ==
    SetChars(d, {<<nPosX, nPosY - 1>> :
                    nPosX \in 0..(m_nColumns - 1), nPosY \in 1..(m_nRows - 1)}
                \cup {<<nPosX, WrapDec(m_nRows)>> :
                         nPosX \in 0..(m_nColumns - 1)})

CursorDown(d) ==
    LET nNext == d.m_nCursorY + 1
    IN  IF nNext >= m_nRows
        THEN IF ~d.m_bAutoPage
             THEN [Scroll(d) EXCEPT !.m_nCursorY = nNext - 1]
             ELSE [d EXCEPT !.m_nCursorY = 0]
        ELSE [d EXCEPT !.m_nCursorY = nNext]

CursorHome(d) == [d EXCEPT !.m_nCursorX = 0, !.m_nCursorY = 0]

CursorLeft(d) ==
    IF d.m_nCursorX > 0
    THEN [d EXCEPT !.m_nCursorX = @ - 1]
    ELSE IF d.m_nCursorY > 0
         THEN [d EXCEPT !.m_nCursorX = m_nColumns - 1, !.m_nCursorY = @ - 1]
         ELSE d

\* a faulty variant of CursorMove: the position is taken without comparing it
\* with the size of the display
CursorMove_Unchecked(d, nRow, nColumn) ==
    [d EXCEPT !.m_nCursorX = WrapDec(nColumn), !.m_nCursorY = WrapDec(nRow)]

\* CursorMove: both coordinates count from 1; the row is only decremented and
\* compared when the column fits
CursorMove(d, nRow, nColumn) ==
    IF WrapDec(nColumn) < m_nColumns /\ WrapDec(nRow) < m_nRows
    THEN [d EXCEPT !.m_nCursorX = WrapDec(nColumn),
                   !.m_nCursorY = WrapDec(nRow)]
    ELSE d

NewLine(d) == CursorDown(CarriageReturn(d))

CursorRight(d) ==
    LET nNext == d.m_nCursorX + 1
    IN  IF nNext >= m_nColumns
        THEN NewLine([d EXCEPT !.m_nCursorX = nNext])
        ELSE [d EXCEPT !.m_nCursorX = nNext]

CursorUp(d) ==
    IF d.m_nCursorY > 0 THEN [d EXCEPT !.m_nCursorY = @ - 1] ELSE d

\* DisplayChar: control characters below the space are dropped
DisplayChar(d, chChar) ==
    IF Ch.space <= chChar
    THEN CursorRight(SetChar(d, d.m_nCursorX, d.m_nCursorY))
    ELSE d

EraseChars(d, nCount) ==
    IF nCount = 0
    THEN d
    ELSE LET nSum == d.m_nCursorX + nCount
             nEndX == IF nSum > m_nColumns THEN m_nColumns ELSE nSum
         IN  SetChars(d, {<<nPosX, d.m_nCursorY>> :
                             nPosX \in d.m_nCursorX..(nEndX - 1)})

SetAutoPageMode(d, bEnable) == [d EXCEPT !.m_bAutoPage = bEnable]

SetCursorMode(d, bVisible) == [d EXCEPT !.m_bCursorOn = bVisible]

Tabulator(d) ==
    LET nNext == ((d.m_nCursorX + 8) \div 8) * 8
    IN  IF nNext >= m_nColumns
        THEN NewLine([d EXCEPT !.m_nCursorX = nNext])
        ELSE [d EXCEPT !.m_nCursorX = nNext]

\* m_nState = nState, for a record
GoTo(d, nState) == [d EXCEPT !.m_nState = nState]

\* the digit branch of the states Number1 and Number3: one more digit of
\* m_nParam1, and the sequence is dropped once the number passes 99
Param1Digit(d, chChar) ==
    LET nParam == d.m_nParam1 * 10 + (chChar - Ch.zero)
    IN  [d EXCEPT !.m_nParam1 = nParam,
                  !.m_nState = IF nParam > 99 THEN "ScreenStateStart" ELSE @]

\* the digit branch of the state Number2, with m_nParam2 and 199
Param2Digit(d, chChar) ==
    LET nParam == d.m_nParam2 * 10 + (chChar - Ch.zero)
    IN  [d EXCEPT !.m_nParam2 = nParam,
                  !.m_nState = IF nParam > 199 THEN "ScreenStateStart" ELSE @]

\* Write (char chChar): one character through the escape sequence parser
WriteChar(d, chChar) ==
    CASE d.m_nState = "ScreenStateStart" ->
            CASE chChar = Ch.bs  -> CursorLeft(d)
              [] chChar = Ch.tab -> Tabulator(d)
              [] chChar = Ch.nl  -> NewLine(d)
              [] chChar = Ch.cr  -> CarriageReturn(d)
              [] chChar = Ch.esc -> GoTo(d, "ScreenStateEscape")
              [] OTHER           -> DisplayChar(d, chChar)
      [] d.m_nState = "ScreenStateEscape" ->
            CASE chChar = Ch.bracket -> GoTo(d, "ScreenStateBracket")
              [] chChar = Ch.d       -> GoTo(d, "ScreenStateAutoPage")
              [] OTHER               -> GoTo(d, "ScreenStateStart")
      [] d.m_nState = "ScreenStateBracket" ->
            CASE chChar = Ch.question -> GoTo(d, "ScreenStateQuestionMark")
              [] chChar = Ch.A -> GoTo(CursorUp(d), "ScreenStateStart")
              [] chChar = Ch.B -> GoTo(CursorDown(d), "ScreenStateStart")
              [] chChar = Ch.C -> GoTo(CursorRight(d), "ScreenStateStart")
              [] chChar = Ch.D -> GoTo(CursorLeft(d), "ScreenStateStart")
              [] chChar = Ch.H -> GoTo(CursorHome(d), "ScreenStateStart")
              [] chChar = Ch.J -> GoTo(ClearDisplayEnd(d), "ScreenStateStart")
              [] chChar = Ch.K -> GoTo(ClearLineEnd(d), "ScreenStateStart")
              [] OTHER ->
                    IF IsDigit(chChar)
                    THEN [d EXCEPT !.m_nParam1 = chChar - Ch.zero,
                                   !.m_nState = "ScreenStateNumber1"]
                    ELSE GoTo(d, "ScreenStateStart")
      [] d.m_nState = "ScreenStateNumber1" ->
            CASE chChar = Ch.semicolon -> GoTo(d, "ScreenStateSemicolon")
              [] chChar = Ch.X ->
                    GoTo(EraseChars(d, d.m_nParam1), "ScreenStateStart")
              [] OTHER ->
                    IF IsDigit(chChar)
                    THEN Param1Digit(d, chChar)
                    ELSE GoTo(d, "ScreenStateStart")
      [] d.m_nState = "ScreenStateSemicolon" ->
            IF IsDigit(chChar)
            THEN [d EXCEPT !.m_nParam2 = chChar - Ch.zero,
                           !.m_nState = "ScreenStateNumber2"]
            ELSE GoTo(d, "ScreenStateStart")
      [] d.m_nState = "ScreenStateQuestionMark" ->
            IF IsDigit(chChar)
            THEN [d EXCEPT !.m_nParam1 = chChar - Ch.zero,
                           !.m_nState = "ScreenStateNumber3"]
            ELSE GoTo(d, "ScreenStateStart")
      [] d.m_nState = "ScreenStateNumber2" ->
            CASE chChar = Ch.H ->
                    GoTo(CursorMove(d, d.m_nParam1, d.m_nParam2),
                         "ScreenStateStart")
              [] OTHER ->
                    IF IsDigit(chChar)
                    THEN Param2Digit(d, chChar)
                    ELSE GoTo(d, "ScreenStateStart")
      [] d.m_nState = "ScreenStateNumber3" ->
            CASE chChar \in {Ch.h, Ch.l} ->
                    GoTo(IF d.m_nParam1 = 25
                         THEN SetCursorMode(d, chChar = Ch.h)
                         ELSE d,
                         "ScreenStateStart")
              [] OTHER ->
                    IF IsDigit(chChar)
                    THEN Param1Digit(d, chChar)
                    ELSE GoTo(d, "ScreenStateStart")
      [] d.m_nState = "ScreenStateAutoPage" ->
            CASE chChar = Ch.plus -> 
                    GoTo(SetAutoPageMode(d, TRUE), "ScreenStateStart")
              [] chChar = Ch.star ->
                    GoTo(SetAutoPageMode(d, FALSE), "ScreenStateStart")
              [] OTHER -> GoTo(d, "ScreenStateStart")
      [] OTHER -> GoTo(d, "ScreenStateStart")

\* the digits the parser is fed, '0' and '1': they spell the first row and
\* column, the 0 that no row or column has, columns inside and past the
\* widest display, and numbers past both limits of the parser
Digits == {48, 49}

\* the characters the parser is fed: every one it tells apart, the digits, a
\* control character it drops (BEL), and printable ones above 0x7F
Chars ==
    {Ch.bs, Ch.tab, Ch.nl, Ch.cr, Ch.esc, Ch.star, Ch.plus, Ch.semicolon,
     Ch.question, Ch.A, Ch.B, Ch.C, Ch.D, Ch.H, Ch.J, Ch.K, Ch.X, Ch.bracket,
     Ch.d, Ch.h, Ch.l, 7, 128, 255} \cup Digits

\* the sizes of display checked, <<columns, rows>>
DisplaySizes == {<<1, 1>>, <<2, 4>>, <<40, 1>>}

\* values of a member no constructor initialises
Uninitialised == {0, 1000}

\* the record's fields go back to the members
StoreLCD(d) ==
    /\ m_nState' = d.m_nState
    /\ m_nCursorX' = d.m_nCursorX
    /\ m_nCursorY' = d.m_nCursorY
    /\ m_bCursorOn' = d.m_bCursorOn
    /\ m_nParam1' = d.m_nParam1
    /\ m_nParam2' = d.m_nParam2
    /\ m_bAutoPage' = d.m_bAutoPage
    /\ lcdFault' = d.lcdFault

\* Initialize: cursor shown, auto page mode off, cursor home, display cleared
Initialize ==
    /\ lcdpc = "constructed"
    /\ StoreLCD(ClearDisplayEnd(CursorHome(
                  SetAutoPageMode(SetCursorMode(LCD, TRUE), FALSE))))
    /\ lcdpc' = "ready"
    /\ UNCHANGED <<sound, m_nColumns, m_nRows>>

\* Write (pBuffer, nCount), one round of its loop: the next character of the
\* buffer goes through the parser
Write ==
    /\ lcdpc \in {"ready", "writing"}
    /\ \E chChar \in Chars : StoreLCD(WriteChar(LCD, chChar))
    /\ lcdpc' = "writing"
    /\ UNCHANGED <<sound, m_nColumns, m_nRows>>

\* Write (pBuffer, nCount), after its loop (at once for an empty buffer): the
\* cursor of the controller is set and the call returns
WriteReturn ==
    /\ lcdpc \in {"ready", "writing"}
    /\ StoreLCD(SetCursor(LCD))
    /\ lcdpc' = "ready"
    /\ UNCHANGED <<sound, m_nColumns, m_nRows>>

\* a display after its constructor: the size is kept and the parser is at
\* its start; the cursor, the modes and the parameters are not initialised
\* before Initialize, so they hold anything
InitDisplay ==
    /\ InitSoundState
    /\ m_nChunkSize = 32 /\ m_bSlave = FALSE /\ m_pI2CMaster = FALSE
    /\ m_ucI2CAddress = 0 /\ m_DeviceMode = "TXOnly"
    /\ nSampleRate = 48000 /\ nClockFreq = 500000000 /\ bEarlyModel = FALSE
    /\ \E size \in DisplaySizes : m_nColumns = size[1] /\ m_nRows = size[2]
    /\ m_nState = "ScreenStateStart"
    /\ m_nCursorX \in Uninitialised /\ m_nCursorY \in Uninitialised
    /\ m_nParam1 \in Uninitialised /\ m_nParam2 \in Uninitialised
    /\ m_bCursorOn \in BOOLEAN /\ m_bAutoPage \in BOOLEAN
    /\ lcdpc = "constructed"
    /\ lcdFault = {}

NextDisplay == Initialize \/ Write \/ WriteReturn

SpecDisplay == InitDisplay /\ [][NextDisplay]_vars

\* ---------------------------------------------------------------------- C26

\* the display is in use: Initialize has returned
DisplayReady == lcdpc \in {"ready", "writing"}

\* C26: display cursor stays on screen. For a display of 1..40 columns and
\* 1..4 rows, after Initialize and after any sequence of characters written,
\* whole, partial or malformed escape sequences included, the cursor is in a
\* column below m_nColumns and a row below m_nRows, every cell written was
\* inside the shadow buffer and on the display, and the assertion of the
\* DDRAM address computation for an unknown row was never hit.
C26_CursorOnScreen ==
    DisplayReady =>
        /\ m_nColumns \in 1..HD44780_MAX_COLUMNS
        /\ m_nRows \in 1..HD44780_MAX_ROWS
        /\ m_nCursorX < m_nColumns
        /\ m_nCursorY < m_nRows
        /\ lcdFault = {}

\* C26 witness: on the widest display a cursor position sequence whose column
\* is past the display has been parsed and dropped (the parser is back at its
\* start with 110 as the column, which is above the 40 columns), and the
\* cursor stands in the last column
C26_Witness ==
    /\ DisplayReady
    /\ m_nColumns = HD44780_MAX_COLUMNS
    /\ m_nState = "ScreenStateStart"
    /\ m_nParam2 = 110
    /\ m_nCursorX = m_nColumns - 1

=============================================================================
